---- MODULE Spec2Model ----
(***************************************************************************)
(* A model of tools/fix_combined_openapi.py (the document merger) and of   *)
(* tools/openapi_complexity.py (the schema graph analyzer).                *)
(*                                                                         *)
(* Python objects live in `heap`: a mapping or a list is a cell with an    *)
(* address (its identity), a scalar is a value.  A string is a sequence of *)
(* atoms: an atom is one of the separator characters "#", "/", "." and     *)
(* newline, or a run of other characters (a word or a digit).              *)
(***************************************************************************)
EXTENDS Integers, Sequences, FiniteSets, TLC

VARIABLES
    heap,        \* the object store: address -> cell [k, e]
    input,       \* the parsed documents as they were read (trees, by value)
    docs,        \* main: docs, the parsed documents (values into heap)
    result,      \* merge_docs: result / main: combined
    openapi_ver, \* merge_docs: openapi_ver
    i,           \* merge_docs: position of the loop over docs[1:]
    text,        \* main: text, the input file as read
    chunks,      \* main: chunks, what split_concatenated_docs returned
    parsed,      \* main line 192: what yaml.safe_load_all gives for each chunk still to parse
    out_text,    \* main: what was written to the output file
    pc,          \* position in main / in compute_metrics
    spec,        \* compute_metrics: spec, the document analysed
    graph,       \* detect_cycles: graph (name -> set of names)
    roots,       \* detect_cycles: what `for n in graph` has still to visit
    visited,     \* detect_cycles: visited
    stack,       \* detect_cycles: stack
    cyc,         \* detect_cycles: cyc
    calls,       \* detect_cycles: the active calls of dfs, innermost last
    circular,    \* compute_metrics: circular
    seen,        \* schema_depth: seen, the ids of the mappings entered
    frames,      \* schema_depth: the active calls, innermost last
    todo,        \* compute_metrics line 267: the schemas still to measure
    depths,      \* compute_metrics: depths
    max_depth,   \* compute_metrics: max_depth
    nodes,       \* compute_metrics line 330: what iter_schema_nodes(spec) has still to yield
    visited_ptrs,\* compute_metrics: visited_ptrs
    totals,      \* compute_metrics lines 320-329: the polymorphism totals
    path_count,  \* compute_metrics: path_count
    operations,  \* compute_metrics: operations
    schemas,     \* compute_metrics: schemas, as its items in order
    prop_counts, \* compute_metrics: prop_counts
    all_refs,    \* compute_metrics: all_refs
    poly_ref_targets, \* compute_metrics: poly_ref_targets
    report,      \* compute_metrics: report
    norms,       \* compute_metrics lines 427-454: n_ops, n_paths, ..., in thousandths
    sample_array_props, \* compute_metrics: sample_array_props
    binary_alt_present  \* compute_metrics: binary_alt_present

splitVars == <<text, chunks, parsed, out_text>>
mergeVars == <<input, docs, result, openapi_ver, i, splitVars>>
cycleVars == <<graph, roots, visited, stack, cyc, calls, circular>>
depthVars == <<seen, frames, todo, depths, max_depth>>
nodeVars == <<nodes, visited_ptrs, totals>>
adviceVars == <<norms, sample_array_props, binary_alt_present>>
metricVars == <<path_count, operations, schemas, prop_counts, all_refs, poly_ref_targets, report,
                adviceVars>>
vars == <<heap, pc, mergeVars, spec, cycleVars, depthVars, nodeVars, metricVars>>

(* The variables of a pipeline that is not running hold Idle.              *)
Idle == <<>>
SplitIdle == text = Idle /\ chunks = Idle /\ parsed = Idle /\ out_text = Idle
MergeIdle ==
    /\ input = Idle /\ docs = Idle /\ result = Idle /\ openapi_ver = Idle /\ i = Idle
    /\ SplitIdle
CycleIdle ==
    /\ graph = Idle /\ roots = Idle /\ visited = Idle /\ stack = Idle
    /\ cyc = Idle /\ calls = Idle /\ circular = Idle
DepthIdle ==
    seen = Idle /\ frames = Idle /\ todo = Idle /\ depths = Idle /\ max_depth = Idle
NodeIdle == nodes = Idle /\ visited_ptrs = Idle /\ totals = Idle
AdviceIdle == norms = Idle /\ sample_array_props = Idle /\ binary_alt_present = Idle
MetricIdle ==
    /\ path_count = Idle /\ operations = Idle /\ schemas = Idle /\ prop_counts = Idle
    /\ all_refs = Idle /\ poly_ref_targets = Idle /\ report = Idle
    /\ AdviceIdle

----------------------------------------------------------------------------
(* Values.  k is the Python type, v the text of a scalar, a the address of *)
(* a mapping or list (0 for a scalar).                                     *)

Sc(kind, s) == [k |-> kind, v |-> s, a |-> 0]
S(w) == Sc("str", <<w>>)
None == Sc("none", <<>>)
Num(w) == Sc("num", <<w>>)
Obj(kind, addr) == [k |-> kind, v |-> <<>>, a |-> addr]

IsDict(x) == x.k = "dict"
IsList(x) == x.k = "list"
IsStr(x) == x.k = "str"
IsNone(x) == x.k = "none"

(* Trees: a document by value, as the YAML text denotes it.                *)
E(w, t) == [key |-> S(w), val |-> t]
D(es) == [k |-> "dict", v |-> <<>>, e |-> es]
L(ts) == [k |-> "list", v |-> <<>>, e |-> [j \in 1..Len(ts) |-> [key |-> None, val |-> ts[j]]]]
T(x) == [k |-> x.k, v |-> x.v, e |-> <<>>]

(* Mapping operations on a cell of the heap.                               *)
Entries(h, x) == IF x.a >= 1 THEN h[x.a].e ELSE <<>>
Has(h, x, key) == \E j \in 1..Len(Entries(h, x)) : Entries(h, x)[j].key = key
Pos(h, x, key) == CHOOSE j \in 1..Len(Entries(h, x)) : Entries(h, x)[j].key = key
Get(h, x, key) == Entries(h, x)[Pos(h, x, key)].val
GetOr(h, x, key, dflt) == IF Has(h, x, key) THEN Get(h, x, key) ELSE dflt
Put(h, x, key, val) ==
    IF Has(h, x, key)
    THEN [h EXCEPT ![x.a].e[Pos(h, x, key)].val = val]
    ELSE [h EXCEPT ![x.a].e = Append(@, [key |-> key, val |-> val])]
Pop(h, x, key) ==
    IF Has(h, x, key)
    THEN LET p == Pos(h, x, key)
             es == Entries(h, x)
         IN [h EXCEPT ![x.a].e = SubSeq(es, 1, p - 1) \o SubSeq(es, p + 1, Len(es))]
    ELSE h
ListAppend(h, x, val) == [h EXCEPT ![x.a].e = Append(@, [key |-> None, val |-> val])]
New(h, kind) == [h |-> Append(h, [k |-> kind, e |-> <<>>]), v |-> Obj(kind, Len(h) + 1)]

(* The value held at x, as a tree.                                         *)
RECURSIVE TreeOf(_, _)
TreeOf(h, x) ==
    IF x.a = 0 THEN T(x)
    ELSE [k |-> x.k, v |-> <<>>,
          e |-> [j \in 1..Len(h[x.a].e) |->
                    [key |-> h[x.a].e[j].key, val |-> TreeOf(h, h[x.a].e[j].val)]]]

(* repr(x): the value written out, mappings in insertion order.            *)
Repr(h, x) == TreeOf(h, x)

(* Fresh objects for a tree: its mappings and lists take the addresses     *)
(* base+1 .. base+TreeSize(t), children before their parent.               *)
RECURSIVE TreeSize(_), SizeBefore(_, _), Cells(_, _), CellsFrom(_, _, _)
TreeSize(t) == IF t.k \notin {"dict", "list"} THEN 0 ELSE 1 + SizeBefore(t.e, Len(t.e) + 1)
SizeBefore(es, j) == IF j <= 1 THEN 0 ELSE SizeBefore(es, j - 1) + TreeSize(es[j - 1].val)
ValueAt(t, base) == IF t.k \notin {"dict", "list"} THEN Sc(t.k, t.v) ELSE Obj(t.k, base + TreeSize(t))
Cells(t, base) ==
    IF t.k \notin {"dict", "list"} THEN <<>>
    ELSE CellsFrom(t.e, 1, base)
         \o <<[k |-> t.k,
               e |-> [j \in 1..Len(t.e) |->
                         [key |-> t.e[j].key,
                          val |-> ValueAt(t.e[j].val, base + SizeBefore(t.e, j))]]]>>
CellsFrom(es, j, base) ==
    IF j > Len(es) THEN <<>>
    ELSE Cells(es[j].val, base + SizeBefore(es, j)) \o CellsFrom(es, j + 1, base)

(* yaml.safe_load: a tree becomes fresh objects.                           *)
Load(h, t) == [h |-> h \o Cells(t, Len(h)), v |-> ValueAt(t, Len(h))]

(* copy.deepcopy(x): fresh objects holding the value of x.                 *)
DeepCopy(h, x) == Load(h, TreeOf(h, x))

----------------------------------------------------------------------------
(* Strings.                                                                *)

StartsWith(s, p) == Len(s) >= Len(p) /\ SubSeq(s, 1, Len(p)) = p
V303 == <<"3", ".", "0", ".", "3">>
V31 == <<"3", ".", "1">>

(* str(x).  Of a mapping or list only the first character is kept: that is *)
(* all startswith("3.1") reads of it.                                      *)
StrOf(x) ==
    CASE x.k \in {"str", "num"} -> x.v
      [] x.k = "none" -> <<"None">>
      [] x.k = "dict" -> <<"{">>
      [] x.k = "list" -> <<"[">>

(* bool(x)                                                                 *)
Truthy(h, x) ==
    CASE x.k = "none" -> FALSE
      [] x.k = "str" -> x.v # <<>>
      [] x.k = "num" -> x.v # <<"0">>
      [] OTHER -> Entries(h, x) # <<>>

----------------------------------------------------------------------------
(* fix_combined_openapi.py: deep_merge.  A merge state st is [h, err]: the *)
(* heap so far and whether an exception was raised.                        *)

Raise(st) == [st EXCEPT !.err = TRUE]

(* A merge in which the later document wins.                               *)
OverwriteExisting(h, dst, key, v) == Put(h, dst, key, v)

(* line 70-72: the destination's value stays                               *)
KeepExisting(h, dst, key, v) == h

(* line 63-68: for item in v: append it unless its repr was seen           *)
RECURSIVE MergeList(_, _, _, _)
MergeList(h, lst, items, reprs) ==
    IF items = <<>> THEN h
    ELSE LET item == Head(items).val
             r == Repr(h, item)
         IN IF r \in reprs
            THEN MergeList(h, lst, Tail(items), reprs)
            ELSE MergeList(ListAppend(h, lst, item), lst, Tail(items), reprs \cup {r})

(* With string keys, `k not in dst` or `dst[k] = ...` raises TypeError on  *)
(* every dst that is not a mapping.                                        *)
RECURSIVE deep_merge(_, _, _), MergeItems(_, _, _)
deep_merge(st, dst, src) == MergeItems(st, dst, Entries(st.h, src))
MergeItems(st, dst, es) ==
    IF es = <<>> \/ st.err THEN st
    ELSE LET k == Head(es).key
             v == Head(es).val
             h == st.h
         IN IF IsNone(v) THEN MergeItems(st, dst, Tail(es))
            ELSE IF ~IsDict(dst) THEN Raise(st)
            ELSE IF ~Has(h, dst, k)
            THEN LET c == DeepCopy(h, v)
                 IN MergeItems([st EXCEPT !.h = Put(c.h, dst, k, c.v)], dst, Tail(es))
            ELSE LET d == Get(h, dst, k)
                 IN IF IsDict(d) /\ IsDict(v)
                    THEN MergeItems(deep_merge(st, d, v), dst, Tail(es))
                    ELSE IF IsList(d) /\ IsList(v)
                    THEN MergeItems(
                            [st EXCEPT !.h = MergeList(h, d, Entries(h, v),
                                {Repr(h, Entries(h, d)[j].val) : j \in 1..Len(Entries(h, d))})],
                            dst, Tail(es))
                    ELSE MergeItems([st EXCEPT !.h = KeepExisting(h, dst, k, v)], dst, Tail(es))

----------------------------------------------------------------------------
(* fix_combined_openapi.py: merge_docs                                     *)

ComponentKeys == <<"schemas", "parameters", "responses", "requestBodies", "headers",
                   "securitySchemes", "examples", "links", "callbacks">>
KeptWhenEmpty == {"schemas", "parameters", "responses"}

(* A setdefault that sets the key in every case.                           *)
SetAlways(h, x, key, val) == Put(h, x, key, val)

(* dict.setdefault(key, val), lines 85-88                                  *)
SetDefault(h, x, key, val) == IF Has(h, x, key) THEN h ELSE Put(h, x, key, val)
SetDefaultNew(h, x, key, kind) ==
    IF Has(h, x, key) THEN h ELSE LET n == New(h, kind) IN Put(n.h, x, key, n.v)

DefaultInfo(h) ==
    [h |-> Append(h, [k |-> "dict",
                      e |-> <<[key |-> S("title"), val |-> S("Combined OpenAPI")],
                              [key |-> S("version"), val |-> Sc("str", <<"0", ".", "0", ".", "0">>)]>>]),
     v |-> Obj("dict", Len(h) + 1)]

RECURSIVE DefaultComponents(_, _, _)
DefaultComponents(h, comps, keys) ==
    IF keys = <<>> THEN h
    ELSE DefaultComponents(SetDefaultNew(h, comps, S(Head(keys)), "dict"), comps, Tail(keys))

(* lines 80-106.  [h, v, ver, err]                                         *)
Baseline(h, d0) ==
    LET c == IF IsDict(d0) THEN DeepCopy(h, d0) ELSE New(h, "dict")
        r == c.v
        h1 == SetDefault(c.h, r, S("openapi"), Sc("str", V303))
        inf == DefaultInfo(h1)
        h2 == IF Has(h1, r, S("info")) THEN h1 ELSE Put(inf.h, r, S("info"), inf.v)
        h3 == SetDefaultNew(h2, r, S("paths"), "dict")
        h4 == SetDefaultNew(h3, r, S("components"), "dict")
        comps == Get(h4, r, S("components"))
        ver == StrOf(Get(h4, r, S("openapi")))
    IN IF ~IsDict(comps)
       THEN [h |-> h4, v |-> r, ver |-> ver, err |-> TRUE]
       ELSE LET h5 == DefaultComponents(h4, comps, ComponentKeys)
                h6 == IF StartsWith(ver, V31)
                      THEN SetDefaultNew(h5, comps, S("pathItems"), "dict") ELSE h5
            IN [h |-> h6, v |-> r, ver |-> ver, err |-> FALSE]

(* lines 117-121                                                           *)
RECURSIVE MergeComponents(_, _, _)
MergeComponents(st, comps, es) ==
    IF es = <<>> \/ st.err THEN st
    ELSE IF ~IsDict(Head(es).val) THEN MergeComponents(st, comps, Tail(es))
    ELSE LET h1 == SetDefaultNew(st.h, comps, Head(es).key, "dict")
         IN MergeComponents(
                deep_merge([st EXCEPT !.h = h1], Get(h1, comps, Head(es).key), Head(es).val),
                comps, Tail(es))

(* lines 124-130 (tags by name) and 133-139 (servers by url)               *)
IdOf(h, t, idkey) == GetOr(h, t, idkey, None)

RECURSIVE AppendNew(_, _, _, _, _)
AppendNew(st, lst, items, idkey, existing) ==
    IF items = <<>> \/ st.err THEN st
    ELSE LET t == Head(items).val
         IN IF ~IsDict(t) THEN AppendNew(st, lst, Tail(items), idkey, existing)
            ELSE LET n == IdOf(st.h, t, idkey)
                 IN IF n.a # 0 THEN Raise(st)                 \* unhashable
                    ELSE IF n \in existing
                    THEN AppendNew(st, lst, Tail(items), idkey, existing)
                    ELSE IF ~IsList(lst) THEN Raise(st)       \* no append
                    ELSE AppendNew([st EXCEPT !.h = ListAppend(st.h, lst, t)], lst,
                                   Tail(items), idkey, existing \cup {n})

MergeByKey(st, res, doc, section, idkey) ==
    IF st.err \/ ~Has(st.h, doc, section) THEN st
    ELSE IF ~IsList(Get(st.h, doc, section)) THEN st
    ELSE LET h1 == SetDefaultNew(st.h, res, section, "list")
             lst == Get(h1, res, section)
             olds == IF IsList(lst)
                     THEN {Entries(h1, lst)[j].val : j \in 1..Len(Entries(h1, lst))}
                     ELSE {}
             ids == {IdOf(h1, t, idkey) : t \in {o \in olds : IsDict(o)}}
         IN IF lst.k \in {"none", "num"} THEN Raise([st EXCEPT !.h = h1])   \* not iterable
            ELSE IF \E n \in ids : n.a # 0 THEN Raise([st EXCEPT !.h = h1]) \* unhashable
            ELSE AppendNew([st EXCEPT !.h = h1], lst,
                           Entries(h1, Get(h1, doc, section)), idkey, ids)

(* lines 110-139: one document of docs[1:]                                 *)
MergeOne(h, res, doc) ==
    LET st0 == [h |-> h, err |-> FALSE]
    IN IF ~IsDict(doc) THEN st0
       ELSE LET st1 == IF Has(h, doc, S("paths")) /\ IsDict(GetOr(h, doc, S("paths"), None))
                       THEN deep_merge(st0, Get(h, res, S("paths")), Get(h, doc, S("paths")))
                       ELSE st0
                st2 == IF ~st1.err /\ Has(h, doc, S("components"))
                          /\ IsDict(GetOr(h, doc, S("components"), None))
                       THEN MergeComponents(st1, Get(st1.h, res, S("components")),
                                            Entries(h, Get(h, doc, S("components"))))
                       ELSE st1
                st3 == MergeByKey(st2, res, doc, S("tags"), S("name"))
            IN MergeByKey(st3, res, doc, S("servers"), S("url"))

(* lines 142-152                                                           *)
Prune(h, res, ver) ==
    LET comps == Get(h, res, S("components"))
        h1 == IF StartsWith(ver, V31) THEN h ELSE Pop(h, comps, S("pathItems"))
        keep(en) == ~(IsDict(en.val) /\ Entries(h1, en.val) = <<>>)
                    \/ en.key \in {S(w) : w \in KeptWhenEmpty}
    IN [h1 EXCEPT ![comps.a].e = SelectSeq(@, keep)]

----------------------------------------------------------------------------
(* fix_combined_openapi.py: rewrite_internal_refs                          *)

HasHash(s) == \E j \in 1..Len(s) : s[j] = "#"
FirstHash(s) == CHOOSE j \in 1..Len(s) : s[j] = "#" /\ \A m \in 1..(j - 1) : s[m] # "#"

(* What follows "#/" when the string has the form [^#]+#/... (line 165)    *)
AfterHashSlash(s) == SubSeq(s, FirstHash(s) + 2, Len(s))
(* (.+)$ : `$` also matches before one final newline                       *)
PointerOf(s) ==
    LET rest == AfterHashSlash(s)
    IN IF rest # <<>> /\ rest[Len(rest)] = "\n" THEN SubSeq(rest, 1, Len(rest) - 1) ELSE rest

(* re.match(r"^(?!#)([^#]+)#/(.+)$", ref)                                  *)
ExternalRefMatch(s) ==
    /\ HasHash(s)
    /\ FirstHash(s) >= 2
    /\ FirstHash(s) + 1 <= Len(s)
    /\ s[FirstHash(s) + 1] = "/"
    /\ PointerOf(s) # <<>>
    /\ \A j \in 1..Len(PointerOf(s)) : PointerOf(s)[j] # "\n"

(* line 167: "#/%s" % m.group(2)                                           *)
Rewritten(s) == <<"#", "/">> \o PointerOf(s)

RECURSIVE rewrite_internal_refs(_, _), RewriteEach(_, _)
rewrite_internal_refs(h, node) ==
    IF IsDict(node)
    THEN LET ref == GetOr(h, node, S("$ref"), None)
             h1 == IF IsStr(ref) /\ ExternalRefMatch(ref.v)
                   THEN Put(h, node, S("$ref"), Sc("str", Rewritten(ref.v)))
                   ELSE h
         IN RewriteEach(h1, Entries(h1, node))
    ELSE IF IsList(node) THEN RewriteEach(h, Entries(h, node))
    ELSE h
RewriteEach(h, es) ==
    IF es = <<>> THEN h ELSE RewriteEach(rewrite_internal_refs(h, Head(es).val), Tail(es))

----------------------------------------------------------------------------
(* The documents the merge pipeline is run on.                             *)

MaxDocs == 3

TS(w) == T(S(w))
TN(w) == T(Num(w))
EK(key, t) == [key |-> key, val |-> t]
PathKey(w) == Sc("str", <<"/", w>>)
RefNode(r) == D(<<E("$ref", T(Sc("str", r)))>>)

RefSet ==
    { <<"other", ".", "yaml", "#", "/", "components", "/", "schemas", "/", "S">>,
      <<"#", "/", "components", "/", "schemas", "/", "S">>,
      <<"other", ".", "yaml">>,
      <<"other", ".", "yaml", "#", "S">> }

DocScalar == TS("x")
DocList(r) == L(<<RefNode(r)>>)
DocFull30(r) ==
    D(<< E("openapi", T(Sc("str", V303))),
         E("info", D(<<E("title", TS("A"))>>)),
         E("paths", D(<< EK(PathKey("a"),
                            D(<< E("get", RefNode(r)),
                                 E("x", TN("1")),
                                 E("l", L(<<TS("u")>>)) >>)) >>)),
         E("components", D(<< E("schemas", D(<<E("S", D(<<E("type", TS("a"))>>))>>)),
                              E("pathItems", D(<<E("p", TN("1"))>>)) >>)),
         E("tags", L(<< D(<<E("name", TS("t"))>>) >>)) >>)
DocFull31(r) ==
    D(<< E("openapi", T(Sc("str", <<"3", ".", "1", ".", "0">>))),
         E("info", D(<<E("title", TS("B"))>>)),
         E("paths", D(<< EK(PathKey("a"),
                            D(<< E("get", TS("g")),
                                 E("x", TN("2")),
                                 E("l", L(<<TS("u"), RefNode(r)>>)),
                                 E("y", RefNode(r)) >>)) >>)),
         E("components", D(<< E("schemas", D(<<E("S", D(<<E("type", TS("b")), E("n", TN("1"))>>))>>)),
                              E("pathItems", D(<<E("q", D(<<>>))>>)),
                              E("examples", D(<<>>)) >>)),
         E("tags", L(<< D(<<E("name", TS("t")), E("d", TN("2"))>>),
                        D(<<E("name", TS("s")), E("e", RefNode(r))>>) >>)),
         E("servers", L(<< D(<<E("url", TS("u"))>>) >>)) >>)
DocNullComponents == D(<< E("components", T(None)) >>)
DocBadPaths ==
    D(<< E("paths", TS("x")),
         E("components", D(<<E("schemas", L(<<>>))>>)) >>)
DocPlain(r) ==
    D(<< E("openapi", T(Sc("str", <<>>))),
         E("paths", D(<< EK(PathKey("b"), RefNode(r)) >>)) >>)

Templates(r) ==
    {DocScalar, DocList(r), DocFull30(r), DocFull31(r), DocNullComponents, DocBadPaths, DocPlain(r)}

RECURSIVE LoadAll(_, _, _)
LoadAll(h, trees, acc) ==
    IF trees = <<>> THEN [h |-> h, vs |-> acc]
    ELSE LET c == Load(h, Head(trees)) IN LoadAll(c.h, Tail(trees), Append(acc, c.v))

----------------------------------------------------------------------------
(* fix_combined_openapi.py: main, from the parsed documents on.  A parsed  *)
(* document is never None (line 194) and there is at least one (line 199). *)

Init ==
    \E r \in RefSet, n \in 1..MaxDocs :
        \E trees \in [1..n -> Templates(r)] :
            LET ld == LoadAll(<<>>, trees, <<>>)
            IN /\ input = trees
               /\ heap = ld.h
               /\ docs = ld.vs
               /\ result = None
               /\ openapi_ver = <<>>
               /\ i = 0
               /\ pc = "start"
               /\ SplitIdle
               /\ spec = Idle
               /\ CycleIdle /\ DepthIdle /\ NodeIdle /\ MetricIdle

(* merge_docs lines 80-106                                                 *)
MergeBaseline ==
    /\ pc = "start"
    /\ LET b == Baseline(heap, docs[1])
       IN /\ heap' = b.h
          /\ result' = b.v
          /\ openapi_ver' = b.ver
          /\ pc' = IF b.err THEN "raised" ELSE "loop"
    /\ i' = 2
    /\ UNCHANGED <<input, docs>>
    /\ UNCHANGED <<splitVars, spec, cycleVars, depthVars, nodeVars, metricVars>>

(* merge_docs lines 109-139, one iteration                                 *)
MergeDoc ==
    /\ pc = "loop"
    /\ i <= Len(docs)
    /\ LET st == MergeOne(heap, result, docs[i])
       IN /\ heap' = st.h
          /\ pc' = IF st.err THEN "raised" ELSE "loop"
    /\ i' = i + 1
    /\ UNCHANGED <<input, docs, result, openapi_ver>>
    /\ UNCHANGED <<splitVars, spec, cycleVars, depthVars, nodeVars, metricVars>>

(* merge_docs lines 141-154                                                *)
MergeFinish ==
    /\ pc = "loop"
    /\ i > Len(docs)
    /\ heap' = Prune(heap, result, openapi_ver)
    /\ pc' = "merged"
    /\ UNCHANGED <<input, docs, result, openapi_ver, i>>
    /\ UNCHANGED <<splitVars, spec, cycleVars, depthVars, nodeVars, metricVars>>

(* main line 204                                                           *)
RewriteRefs ==
    /\ pc = "merged"
    /\ heap' = rewrite_internal_refs(heap, result)
    /\ pc' = "rewritten"
    /\ UNCHANGED <<input, docs, result, openapi_ver, i>>
    /\ UNCHANGED <<splitVars, spec, cycleVars, depthVars, nodeVars, metricVars>>

(* main lines 207-208                                                      *)
EnsureOpenapi ==
    /\ pc = "rewritten"
    /\ heap' = IF Truthy(heap, GetOr(heap, result, S("openapi"), None))
               THEN heap
               ELSE Put(heap, result, S("openapi"), Sc("str", V303))
    /\ pc' = "done"
    /\ UNCHANGED <<input, docs, result, openapi_ver, i>>
    /\ UNCHANGED <<splitVars, spec, cycleVars, depthVars, nodeVars, metricVars>>

Next == MergeBaseline \/ MergeDoc \/ MergeFinish \/ RewriteRefs \/ EnsureOpenapi

Spec == Init /\ [][Next]_vars

----------------------------------------------------------------------------
(* Properties of the merge pipeline.                                       *)

Merged == pc \in {"merged", "rewritten", "done"}
RefsRewritten == pc \in {"rewritten", "done"}

(* Every string-valued $ref of a tree.                                     *)
RECURSIVE TreeRefs(_)
TreeRefs(t) ==
    IF t.k \notin {"dict", "list"} THEN {}
    ELSE {t.e[j].val.v : j \in {m \in 1..Len(t.e) :
                                   t.k = "dict" /\ t.e[m].key = S("$ref") /\ t.e[m].val.k = "str"}}
         \cup UNION {TreeRefs(t.e[j].val) : j \in 1..Len(t.e)}

IsInternalRef(s) == StartsWith(s, <<"#", "/">>)

TreeHas(t, key) == t.k = "dict" /\ \E j \in 1..Len(t.e) : t.e[j].key = key
TreeGet(t, key) == t.e[CHOOSE j \in 1..Len(t.e) : t.e[j].key = key].val
IsScalarTree(t) == t.k \notin {"dict", "list"}

(* C1: after merge_docs and rewrite_internal_refs every string-valued $ref *)
(* of the output begins with "#/".                                         *)
C1_AllRefsInternal ==
    RefsRewritten => \A s \in TreeRefs(TreeOf(heap, result)) : IsInternalRef(s)

(* C2: after merge_docs and the in-place rewrite_internal_refs on its      *)
(* result, every input document still holds the value it was read with.    *)
C2_InputsUnchanged ==
    RefsRewritten => \A j \in 1..Len(docs) : TreeOf(heap, docs[j]) = input[j]

(* What `old` holds is still held by `new`: every key with its scalar, every *)
(* mapping under its key, every list with its items in front.              *)
RECURSIVE Preserved(_, _)
Preserved(old, new) ==
    CASE old.k = "dict" ->
            /\ new.k = "dict"
            /\ \A j \in 1..Len(old.e) :
                  /\ TreeHas(new, old.e[j].key)
                  /\ Preserved(old.e[j].val, TreeGet(new, old.e[j].key))
      [] old.k = "list" ->
            /\ new.k = "list"
            /\ Len(new.e) >= Len(old.e)
            /\ \A j \in 1..Len(old.e) : new.e[j] = old.e[j]
      [] OTHER -> new = old

(* The top-level scalars of the first document are those of the result.    *)
FirstScalarsKept ==
    input[1].k = "dict" =>
        \A j \in 1..Len(input[1].e) :
            IsScalarTree(input[1].e[j].val) =>
                /\ Has(heap, result, input[1].e[j].key)
                /\ T(Get(heap, result, input[1].e[j].key)) = input[1].e[j].val

(* Two trees set the same key to different values that are not merged.     *)
RECURSIVE Conflict(_, _)
Conflict(t, u) ==
    /\ t.k = "dict" /\ u.k = "dict"
    /\ \E j \in 1..Len(t.e) :
          /\ TreeHas(u, t.e[j].key)
          /\ LET a == t.e[j].val
                 b == TreeGet(u, t.e[j].key)
             IN IF a.k = "dict" /\ b.k = "dict" THEN Conflict(a, b)
                ELSE a # b /\ ~(a.k = "list" /\ b.k = "list") /\ b.k # "none"
ScalarConflict(t, u) ==
    /\ t.k = "dict" /\ u.k = "dict"
    /\ \E j \in 1..Len(t.e) :
          /\ IsScalarTree(t.e[j].val) /\ TreeHas(u, t.e[j].key)
          /\ IsScalarTree(TreeGet(u, t.e[j].key)) /\ TreeGet(u, t.e[j].key) # t.e[j].val

(* C3: merging a later document (one iteration of the loop of merge_docs)  *)
(* never overwrites or removes a value the accumulating result holds, and  *)
(* the merged result holds the first document's top-level scalars.         *)
C3_EarliestWins ==
    /\ [][(pc = "loop" /\ i' = i + 1)
            => Preserved(TreeOf(heap, result), TreeOf(heap', result'))]_vars
    /\ [](pc = "merged" => FirstScalarsKept)

(* C3 witness: a later document was merged that sets a top-level scalar    *)
(* and a value under paths differently from the first document.            *)
C3_Witness ==
    /\ pc = "merged"
    /\ \E j \in 2..Len(input) :
          /\ ScalarConflict(input[1], input[j])
          /\ TreeHas(input[1], S("paths")) /\ TreeHas(input[j], S("paths"))
          /\ Conflict(TreeGet(input[1], S("paths")), TreeGet(input[j], S("paths")))

(* The first document, or a container of it that merge_docs uses as a      *)
(* mapping, is not a mapping.                                              *)
NotMapping(t, key) == TreeHas(t, key) /\ TreeGet(t, key).k # "dict"
BaselineMalformed ==
    \/ input[1].k # "dict"
    \/ NotMapping(input[1], S("components"))
    \/ NotMapping(input[1], S("paths"))
    \/ /\ TreeHas(input[1], S("components"))
       /\ \E j \in 1..Len(ComponentKeys) :
             NotMapping(TreeGet(input[1], S("components")), S(ComponentKeys[j]))

(* C10: merge_docs does not raise when the first document or one of its    *)
(* containers is not a mapping.                                            *)
C10_MalformedBaselineMerges ==
    BaselineMalformed => pc # "raised"

----------------------------------------------------------------------------
(* The pipeline on one document.                                           *)

TreeTruthy(t) ==
    CASE t.k = "none" -> FALSE
      [] t.k = "str" -> t.v # <<>>
      [] t.k = "num" -> t.v # <<"0">>
      [] OTHER -> t.e # <<>>

(* What merge_docs inserts for a key the document lacks.                   *)
DefaultTree(key) ==
    CASE key = S("openapi") -> T(Sc("str", V303))
      [] key = S("info") -> D(<<E("title", TS("Combined OpenAPI")),
                               E("version", T(Sc("str", <<"0", ".", "0", ".", "0">>)))>>)
      [] OTHER -> D(<<>>)
TopDefaults == {S("openapi"), S("info"), S("paths"), S("components")}
SectionDefaults == {S(ComponentKeys[j]) : j \in 1..Len(ComponentKeys)} \cup {S("pathItems")}

(* The document and the output hold the same keys with the same values,    *)
(* but for the keys of `defaults` that only the output holds; sub tells    *)
(* how the values of a key are compared.                                   *)
SameButDefaults(d, out, defaults, sub(_, _, _)) ==
    /\ out.k = "dict"
    /\ \A j \in 1..Len(d.e) :
          TreeHas(out, d.e[j].key) /\ sub(d.e[j].key, d.e[j].val, TreeGet(out, d.e[j].key))
    /\ \A j \in 1..Len(out.e) :
          ~TreeHas(d, out.e[j].key) => out.e[j].key \in defaults

SingleMapping == Len(input) = 1 /\ input[1].k = "dict"

(* C12 as stated: the output for a single mapping document holds every key *)
(* and value of the document unchanged, and besides them only keys         *)
(* inserted as defaults (top-level ones and component subsections).        *)
C12_SingleDocIdentity ==
    (pc = "done" /\ SingleMapping) =>
        SameButDefaults(input[1], TreeOf(heap, result), TopDefaults,
            LAMBDA key, old, new :
                IF key = S("components") /\ old.k = "dict"
                THEN SameButDefaults(old, new, SectionDefaults, LAMBDA k2, o2, n2 : n2 = o2)
                ELSE new = old)

(* The tree with every external $ref of the form path#/pointer in its      *)
(* internal form #/pointer.                                                *)
RECURSIVE RefsInternal(_)
RefsInternal(t) ==
    IF t.k \notin {"dict", "list"} THEN t
    ELSE [t EXCEPT !.e =
            [j \in 1..Len(t.e) |->
                [key |-> t.e[j].key,
                 val |-> IF /\ t.k = "dict" /\ t.e[j].key = S("$ref")
                            /\ t.e[j].val.k = "str" /\ ExternalRefMatch(t.e[j].val.v)
                         THEN T(Sc("str", Rewritten(t.e[j].val.v)))
                         ELSE RefsInternal(t.e[j].val)]]]

(* The version merge_docs goes by: str() of the document's openapi.        *)
VersionOf(d) == IF TreeHas(d, S("openapi")) THEN StrOf(TreeGet(d, S("openapi"))) ELSE V303

(* The component subsections merge_docs takes out of a document: pathItems *)
(* under a version that is not 3.1, and the empty ones it does not keep.   *)
Dropped(d, key, val) ==
    \/ key = S("pathItems") /\ ~StartsWith(VersionOf(d), V31)
    \/ val = D(<<>>) /\ key \notin {S(w) : w \in KeptWhenEmpty}

(* C12 as amended: for a single mapping document, merge_docs raises        *)
(* exactly when `components` is present and no mapping; otherwise the      *)
(* output holds every key of the document with its value, but for: every  *)
(* external $ref string in internal form, a falsy openapi replaced by      *)
(* "3.0.3", and the dropped component subsections.  What the output holds  *)
(* besides is an inserted default: openapi, info, paths, components at the *)
(* top, and empty schemas, parameters, responses in components.            *)
C12_SingleDocKept ==
    SingleMapping =>
        /\ pc = "raised" => NotMapping(input[1], S("components"))
        /\ pc \in {"loop", "merged", "rewritten", "done"} => ~NotMapping(input[1], S("components"))
        /\ pc = "done" =>
              LET d == RefsInternal(input[1])
                  out == TreeOf(heap, result)
              IN /\ out.k = "dict"
                 /\ \A j \in 1..Len(d.e) :
                       LET key == d.e[j].key
                           old == d.e[j].val
                           new == TreeGet(out, key)
                       IN /\ TreeHas(out, key)
                          /\ IF key = S("components")
                             THEN /\ new.k = "dict"
                                  /\ \A l \in 1..Len(old.e) :
                                        IF Dropped(d, old.e[l].key, old.e[l].val)
                                        THEN ~TreeHas(new, old.e[l].key)
                                        ELSE /\ TreeHas(new, old.e[l].key)
                                             /\ TreeGet(new, old.e[l].key) = old.e[l].val
                                  /\ \A l \in 1..Len(new.e) :
                                        ~TreeHas(old, new.e[l].key) =>
                                            /\ new.e[l].key \in {S(w) : w \in KeptWhenEmpty}
                                            /\ new.e[l].val = D(<<>>)
                             ELSE IF key = S("openapi") /\ ~TreeTruthy(old)
                             THEN new = T(Sc("str", V303))
                             ELSE new = old
                 /\ \A j \in 1..Len(out.e) :
                       ~TreeHas(d, out.e[j].key) =>
                           /\ out.e[j].key \in TopDefaults
                           /\ IF out.e[j].key = S("components")
                              THEN out.e[j].val = D([l \in 1..3 |-> E(ComponentKeys[l], D(<<>>))])
                              ELSE out.e[j].val = DefaultTree(out.e[j].key)

(* A single document went through the pipeline that has an external $ref,  *)
(* a component subsection that is dropped and one that is defaulted.       *)
C12_Witness ==
    /\ pc = "done" /\ SingleMapping
    /\ \E r \in TreeRefs(input[1]) : ExternalRefMatch(r)
    /\ TreeHas(input[1], S("components"))
    /\ \E l \in 1..Len(TreeGet(input[1], S("components")).e) :
          Dropped(input[1], TreeGet(input[1], S("components")).e[l].key,
                  TreeGet(input[1], S("components")).e[l].val)
    /\ \E w \in KeptWhenEmpty : ~TreeHas(TreeGet(input[1], S("components")), S(w))

----------------------------------------------------------------------------
(* The merge of lists: documents with lists under paths, with tags and     *)
(* with servers, some entries more than once.                              *)

Tag(w, more) == D(<<E("name", TS(w))>> \o more)
Server(w, more) == D(<<E("url", TS(w))>> \o more)
Described == <<E("description", TS("d"))>>
ListsOf(pathItems, tags, servers) ==
    D(<< E("paths", D(pathItems)), E("tags", tags), E("servers", servers) >>)

ListDocs ==
    { ListsOf(<<EK(PathKey("a"), D(<<E("l", L(<<TS("u")>>))>>))>>,
              L(<<Tag("t", <<>>)>>),
              L(<<Server("u", <<>>)>>)),
      ListsOf(<<EK(PathKey("a"), D(<< E("l", L(<<TS("u"), TS("w"), TS("w"), D(<<E("k", TN("1"))>>)>>)),
                                      E("m", L(<<TS("x"), TS("x")>>)) >>))>>,
              L(<<Tag("t", Described), Tag("s", <<>>)>>),
              L(<<Server("u", Described), Server("v", <<>>)>>)),
      ListsOf(<< EK(PathKey("a"), D(<<E("l", L(<<TS("w"), TS("w")>>))>>)),
                 EK(PathKey("b"), D(<<E("l", L(<<TS("u"), TS("u")>>))>>)) >>,
              L(<<Tag("s", <<>>), Tag("s", Described), TS("x"), D(Described)>>),
              L(<<Server("v", <<>>), Server("v", Described)>>)),
      ListsOf(<<EK(PathKey("a"), D(<<E("l", T(None))>>))>>, L(<<>>), L(<<D(Described)>>)),
      ListsOf(<<EK(PathKey("a"), D(<<E("l", TS("x"))>>))>>, TS("x"), T(None)),
      ListsOf(<<>>, L(<<D(<<E("name", L(<<TS("x")>>))>>)>>), L(<<>>)),    \* a name that is a list
      DocScalar }

InitLists ==
    \E n \in 1..MaxDocs :
        \E trees \in [1..n -> ListDocs] :
            LET ld == LoadAll(<<>>, trees, <<>>)
            IN /\ input = trees
               /\ heap = ld.h
               /\ docs = ld.vs
               /\ result = None
               /\ openapi_ver = <<>>
               /\ i = 0
               /\ pc = "start"
               /\ SplitIdle
               /\ spec = Idle
               /\ CycleIdle /\ DepthIdle /\ NodeIdle /\ MetricIdle

SpecLists == InitLists /\ [][Next]_vars

(* The paths, tags and servers of the result, absent ones as None.         *)
ListContent(h, res) ==
    [section \in {"paths", "tags", "servers"} |->
        IF Has(h, res, S(section)) THEN TreeOf(h, Get(h, res, S(section))) ELSE T(None)]

(* C13: merging a document that equals the one merged just before it (or   *)
(* the baseline) completes and leaves the paths, tags and servers of the   *)
(* result as they were: merge_docs([b, d, d]) has those of                 *)
(* merge_docs([b, d]), merge_docs([d, d]) those of merge_docs([d]).        *)
C13_RemergeAddsNothing ==
    [][(pc = "loop" /\ i' = i + 1 /\ input[i] = input[i - 1])
          => (pc' = "loop" /\ ListContent(heap', result') = ListContent(heap, result))]_vars

(* t.get(key) of a tag or a server t                                       *)
IdentityOf(t, key) == IF TreeHas(t, key) THEN TreeGet(t, key) ELSE T(None)

(* The mappings of a document's list under `section`, in order             *)
DictItems(d, section) ==
    IF d.k = "dict" /\ TreeHas(d, S(section)) /\ TreeGet(d, S(section)).k = "list"
    THEN SelectSeq([j \in 1..Len(TreeGet(d, S(section)).e) |-> TreeGet(d, S(section)).e[j].val],
                   LAMBDA t : t.k = "dict")
    ELSE <<>>
RECURSIVE AllItems(_, _)
AllItems(ds, section) ==
    IF ds = <<>> THEN <<>> ELSE DictItems(Head(ds), section) \o AllItems(Tail(ds), section)

(* Of a sequence of mappings, the earliest one of each identity            *)
Earliest(ts, key) ==
    SelectSeq([j \in 1..Len(ts) |->
                  IF \E l \in 1..(j - 1) : IdentityOf(ts[l], key) = IdentityOf(ts[j], key)
                  THEN None ELSE ts[j]],
              LAMBDA t : t # None)

(* C18: after merge_docs the mappings of the result's tags have one entry  *)
(* per name and those of its servers one entry per url: of all the         *)
(* documents' entries they are the earliest of each identity, in the       *)
(* order of the documents.                                                 *)
C18_OnePerIdentity ==
    pc \in {"merged", "rewritten", "done"} =>
        \A pair \in {<<"tags", "name">>, <<"servers", "url">>} :
           LET kept == DictItems(TreeOf(heap, result), pair[1])
           IN /\ \A j, l \in 1..Len(kept) :
                    j < l => IdentityOf(kept[j], S(pair[2])) # IdentityOf(kept[l], S(pair[2]))
              /\ kept = Earliest(AllItems(input, pair[1]), S(pair[2]))

----------------------------------------------------------------------------
(* fix_combined_openapi.py: split_concatenated_docs, lines 26-46.  A text  *)
(* is a sequence of atoms: a line feed, the word "openapi:", a byte-order  *)
(* mark, a blank, or a stretch of other text within a line.                *)

MaxText == 5
TextAtoms == {"\n", "openapi:", "BOM", " ", "a"}

(* line 32: where (?m)^openapi: matches, at the start of a line            *)
Starts(txt) == {p \in 1..Len(txt) : txt[p] = "openapi:" /\ (p = 1 \/ txt[p - 1] = "\n")}

(* chunk.strip("\n"), line 45                                              *)
RECURSIVE StripLeft(_)
StripLeft(chunk) ==
    IF chunk # <<>> /\ Head(chunk) = "\n" THEN StripLeft(Tail(chunk)) ELSE chunk
RECURSIVE StripRight(_)
StripRight(chunk) ==
    IF chunk # <<>> /\ chunk[Len(chunk)] = "\n"
    THEN StripRight(SubSeq(chunk, 1, Len(chunk) - 1))
    ELSE chunk
Strip(chunk) == StripRight(StripLeft(chunk))

(* The starts in order: starts[j] is the j-th smallest.                    *)
Ascending(ps) ==
    CHOOSE q \in [1..Cardinality(ps) -> ps] :
        \A j, l \in 1..Cardinality(ps) : j < l => q[j] < q[l]

split_concatenated_docs(txt) ==
    LET starts == Ascending(Starts(txt))
    IN IF Len(starts) = 0 THEN <<txt>>
       ELSE [j \in 1..Len(starts) |->
                LET e == IF j + 1 <= Len(starts) THEN starts[j + 1] ELSE Len(txt) + 1
                IN Strip(IF j = 1 THEN SubSeq(txt, 1, e - 1)
                         ELSE SubSeq(txt, starts[j], e - 1))]

Texts == UNION {[1..n -> TextAtoms] : n \in 0..MaxText}

InitSplit ==
    /\ text \in Texts
    /\ chunks = <<>> /\ parsed = Idle /\ out_text = Idle
    /\ input = Idle /\ docs = Idle /\ result = Idle /\ openapi_ver = Idle /\ i = Idle
    /\ heap = <<>> /\ pc = "split" /\ spec = None
    /\ CycleIdle /\ DepthIdle /\ NodeIdle /\ MetricIdle

(* main, line 187                                                          *)
SplitText ==
    /\ pc = "split"
    /\ chunks' = split_concatenated_docs(text)
    /\ pc' = "parse"
    /\ UNCHANGED <<heap, text, parsed, out_text, input, docs, result, openapi_ver, i,
                   spec, cycleVars, depthVars, nodeVars, metricVars>>

SpecSplit == InitSplit /\ [][SplitText]_vars

(* The text from position p up to the next start after p, or to its end    *)
UpToNextStart(txt, p) ==
    LET later == {q \in Starts(txt) : q > p}
    IN SubSeq(txt, p, IF later = {} THEN Len(txt)
                      ELSE (CHOOSE q \in later : \A r \in later : q <= r) - 1)
IsPrefix(a, b) == Len(a) <= Len(b) /\ SubSeq(b, 1, Len(a)) = a

(* C17: the text is cut into one fragment per line that starts with        *)
(* "openapi:", or is one fragment when there is none; a later fragment     *)
(* starts at its header and runs to the next header or to the end of the   *)
(* text (line feeds that end it aside), and the first fragment begins with *)
(* everything that stands before the first header, leading blank lines     *)
(* and a byte-order mark included.                                         *)
C17_SplitLosesNothing ==
    pc = "parse" =>
        IF Starts(text) = {} THEN chunks = <<text>>
        ELSE /\ Len(chunks) = Cardinality(Starts(text))
             /\ \A j \in 2..Len(chunks) :
                   \E p \in Starts(text) :
                      /\ Cardinality({q \in Starts(text) : q < p}) = j - 1
                      /\ chunks[j] = StripRight(UpToNextStart(text, p))
             /\ LET first == CHOOSE p \in Starts(text) : \A q \in Starts(text) : p <= q
                IN /\ IsPrefix(SubSeq(text, 1, first - 1), chunks[1])
                   /\ chunks[1] = StripRight(SubSeq(text, 1, first - 1) \o UpToNextStart(text, first))

----------------------------------------------------------------------------
(* fix_combined_openapi.py: main, lines 186-224, from the chunks on.       *)
(* yaml.safe_load_all is the library's: of a chunk it gives the documents  *)
(* the chunk holds (None for an empty one), or it raises.                  *)

MaxChunks == 3

Unparseable == [raise |-> TRUE, docs |-> <<>>]
Parses(trees) == [raise |-> FALSE, docs |-> trees]
ExternalRef == <<"other", ".", "yaml", "#", "/", "components", "/", "schemas", "/", "S">>
ChunkOutcomes ==
    { Unparseable,
      Parses(<<>>),
      Parses(<<T(None)>>),
      Parses(<<DocPlain(ExternalRef)>>),
      Parses(<<DocFull31(ExternalRef)>>),
      Parses(<<T(None), DocFull30(ExternalRef), DocScalar>>),    \* a chunk with `---` separators
      Parses(<<DocNullComponents>>) }

InitMain ==
    \E n \in 1..MaxChunks :
        \E outcomes \in [1..n -> ChunkOutcomes] :
            /\ parsed = outcomes
            /\ text = Idle /\ chunks = Idle
            /\ out_text = None
            /\ heap = <<>> /\ input = <<>> /\ docs = <<>>
            /\ result = None /\ openapi_ver = <<>>
            /\ i = 1
            /\ pc = "parse"
            /\ spec = Idle
            /\ CycleIdle /\ DepthIdle /\ NodeIdle /\ MetricIdle

(* lines 189-197, one iteration: list(yaml.safe_load_all(ch)) raises and   *)
(* the chunk is skipped with a warning, or its documents that are not None *)
(* are appended to docs                                                    *)
ParseChunk ==
    /\ pc = "parse"
    /\ i <= Len(parsed)
    /\ IF parsed[i].raise
       THEN UNCHANGED <<heap, docs, input>>
       ELSE LET loaded == SelectSeq(parsed[i].docs, LAMBDA d : d.k # "none")
                ld == LoadAll(heap, loaded, <<>>)
            IN /\ heap' = ld.h
               /\ docs' = docs \o ld.vs
               /\ input' = input \o loaded
    /\ i' = i + 1
    /\ UNCHANGED <<pc, result, openapi_ver, splitVars>>
    /\ UNCHANGED <<spec, cycleVars, depthVars, nodeVars, metricVars>>

(* lines 199-201: sys.exit(2) when no document was parsed                  *)
ParseDone ==
    /\ pc = "parse"
    /\ i > Len(parsed)
    /\ pc' = IF docs = <<>> THEN "exit2" ELSE "start"
    /\ UNCHANGED <<heap, input, docs, result, openapi_ver, i, splitVars>>
    /\ UNCHANGED <<spec, cycleVars, depthVars, nodeVars, metricVars>>

(* lines 210-224: yaml.safe_dump(combined) is written to the output file   *)
WriteOutput ==
    /\ pc = "done"
    /\ out_text' = TreeOf(heap, result)
    /\ pc' = "written"
    /\ UNCHANGED <<heap, input, docs, result, openapi_ver, i, text, chunks, parsed>>
    /\ UNCHANGED <<spec, cycleVars, depthVars, nodeVars, metricVars>>

NextMain ==
    \/ ParseChunk \/ ParseDone
    \/ MergeBaseline \/ MergeDoc \/ MergeFinish \/ RewriteRefs \/ EnsureOpenapi
    \/ WriteOutput

SpecMain == InitMain /\ [][NextMain]_vars

(* The documents of the chunks that parse, in the order of the chunks and  *)
(* of the documents in each chunk.                                         *)
RECURSIVE DiscoveryOrder(_)
DiscoveryOrder(outcomes) ==
    IF outcomes = <<>> THEN <<>>
    ELSE (IF Head(outcomes).raise THEN <<>>
          ELSE SelectSeq(Head(outcomes).docs, LAMBDA d : d.k # "none"))
         \o DiscoveryOrder(Tail(outcomes))

(* C11: a chunk that fails to parse is skipped and the documents of the    *)
(* others are kept in discovery order; the run exits with status 2 and     *)
(* writes nothing exactly when no document was parsed, and with a document *)
(* parsed it goes on to write the merged output: it never ends in an       *)
(* exception.                                                              *)
C11_SkipsThenWrites ==
    /\ pc # "parse" => input = DiscoveryOrder(parsed)
    /\ pc = "exit2" => DiscoveryOrder(parsed) = <<>> /\ out_text = None
    /\ (pc # "parse" /\ DiscoveryOrder(parsed) = <<>>) => pc = "exit2"
    /\ pc = "written" => out_text = TreeOf(heap, result)
    /\ pc # "raised"

----------------------------------------------------------------------------
(* openapi_complexity.py: reading the document.                            *)

(* A `{}` literal.                                                         *)
EmptyMap == Obj("dict", -1)
Failed == [err |-> TRUE, val |-> <<>>]
Ok(x) == [err |-> FALSE, val |-> x]

(* A local variable: x is evaluated once and F applied to its value.       *)
Bind(x, F(_)) == CHOOSE r \in {F(c) : c \in {x}} : TRUE

(* x.get(key, {}) or {}, of a mapping x                                    *)
GetOrEmpty(h, x, key) ==
    Bind(GetOr(h, x, key, EmptyMap), LAMBDA g : IF Truthy(h, g) THEN g ELSE EmptyMap)

(* collect_schema_defs, lines 64-67: the entries of components.schemas     *)
(* that are mappings; .get and .items raise on what is not a mapping.      *)
collect_schema_defs(h, sp) ==
    IF ~IsDict(sp) THEN Failed
    ELSE Bind(GetOrEmpty(h, sp, S("components")), LAMBDA components :
           IF ~IsDict(components) THEN Failed
           ELSE Bind(GetOrEmpty(h, components, S("schemas")), LAMBDA named :
                  IF ~IsDict(named) THEN Failed
                  ELSE Ok(SelectSeq(Entries(h, named), LAMBDA en : IsDict(en.val)))))

(* find_refs, lines 73-83                                                  *)
RECURSIVE find_refs(_, _), FindRefsIn(_, _)
find_refs(h, node) ==
    IF IsDict(node)
    THEN (IF IsStr(GetOr(h, node, S("$ref"), None)) THEN <<Get(h, node, S("$ref")).v>> ELSE <<>>)
         \o FindRefsIn(h, Entries(h, node))
    ELSE IF IsList(node) THEN FindRefsIn(h, Entries(h, node))
    ELSE <<>>
FindRefsIn(h, es) ==
    IF es = <<>> THEN <<>> ELSE find_refs(h, Head(es).val) \o FindRefsIn(h, Tail(es))

(* REF_RE, line 70: ^#/components/schemas/(?P<name>[^/]+)$                 *)
SchemaRefPrefix == <<"#", "/", "components", "/", "schemas", "/">>
RefMatch(s) ==
    /\ StartsWith(s, SchemaRefPrefix)
    /\ Len(s) > Len(SchemaRefPrefix)
    /\ \A j \in (Len(SchemaRefPrefix) + 1)..Len(s) : s[j] # "/"
RefName(s) == Sc("str", SubSeq(s, Len(SchemaRefPrefix) + 1, Len(s)))

Range(q) == {q[j] : j \in 1..Len(q)}
Keys(es) == [j \in 1..Len(es) |-> es[j].key]

(* schema_graph, lines 184-192                                             *)
schema_graph(h, defs) ==
    [name \in Range(Keys(defs)) |->
        LET schema == (CHOOSE en \in Range(defs) : en.key = name).val
        IN {RefName(r) : r \in {x \in Range(find_refs(h, schema)) : RefMatch(x)}}]

----------------------------------------------------------------------------
(* openapi_complexity.py: detect_cycles, lines 195-214, one call or return *)
(* of dfs at a time.  A frame of `calls` is [node, todo]: the vertex and   *)
(* the successors its loop has still to follow.                            *)

Successors(g, node) == IF node \in DOMAIN g THEN g[node] ELSE {}

(* A dfs that marks only the vertex that closes the cycle.                 *)
MarkClosingVertex(marked, onStack, node) == marked \cup {node}

(* line 202: cyc.update(stack)                                             *)
MarkCycle(marked, onStack, node) == marked \cup onStack

(* A dfs that never takes a vertex off the stack.                          *)
KeepOnStack(onStack, node) == onStack

(* line 210: stack.remove(node)                                            *)
StackRemove(onStack, node) == onStack \ {node}

(* lines 201-207: dfs(node) up to its loop                                 *)
Enter(node) ==
    IF node \in stack
    THEN /\ cyc' = MarkCycle(cyc, stack, node)
         /\ UNCHANGED <<visited, stack, calls>>
    ELSE IF node \in visited
    THEN UNCHANGED <<visited, stack, calls, cyc>>
    ELSE /\ visited' = visited \cup {node}
         /\ stack' = stack \cup {node}
         /\ calls' = Append(calls, [node |-> node, todo |-> Successors(graph, node)])
         /\ UNCHANGED cyc

(* The documents the cycle detector is run on: three named schemas, each   *)
(* holding some of the references of RefChoices.                           *)
MaxRefs == 4

SchemaNames == <<"A", "B", "C">>
SchemaRef(w) == SchemaRefPrefix \o <<w>>
RefChoices ==
    { SchemaRef("A"), SchemaRef("B"), SchemaRef("C"),
      SchemaRef("Z"),                                             \* not a schema of the document
      <<"#", "/", "components", "/", "parameters", "/", "A">> }   \* not a schema reference

(* A set of strings as a sequence, in a fixed order.                       *)
RECURSIVE SeqOf(_)
SeqOf(set) ==
    IF set = {} THEN <<>>
    ELSE LET x == CHOOSE y \in set : TRUE IN <<x>> \o SeqOf(set \ {x})

RefNodes(refs) == [j \in 1..Len(refs) |-> RefNode(refs[j])]
PropNames == <<"parent", "p2", "p3", "p4", "p5">>
(* A holds its references under allOf, B in its properties, C in its items *)
SchemaWith(w, refs) ==
    CASE w = "A" -> D(<< E("type", TS("object")), E("allOf", L(RefNodes(refs))) >>)
      [] w = "B" -> D(<< E("type", TS("object")),
                         E("properties", D([j \in 1..Len(refs) |-> E(PropNames[j], RefNode(refs[j]))])) >>)
      [] w = "C" -> D(<< E("type", TS("array")),
                         E("items", IF refs = <<>> THEN D(<<>>)
                                    ELSE D(<<E("anyOf", L(RefNodes(refs)))>>)) >>)

SchemaDoc(n, slots) ==
    D(<< E("openapi", T(Sc("str", V303))),
         E("components",
           D(<< E("schemas",
                  D([j \in 1..n |->
                        E(SchemaNames[j],
                          SchemaWith(SchemaNames[j],
                                     SeqOf({sl[2] : sl \in {x \in slots : x[1] = SchemaNames[j]}})))])) >>)) >>)

InitCycles ==
    \E n \in 1..Len(SchemaNames) :
    \E slots \in SUBSET ({SchemaNames[j] : j \in 1..n} \X RefChoices) :
        /\ Cardinality(slots) <= MaxRefs
        /\ LET ld == Load(<<>>, SchemaDoc(n, slots))
           IN heap = ld.h /\ spec = ld.v
        /\ pc = "start"
        /\ MergeIdle /\ DepthIdle /\ NodeIdle /\ MetricIdle
        /\ graph = <<>> /\ roots = <<>> /\ visited = {} /\ stack = {} /\ cyc = {}
        /\ calls = <<>> /\ circular = <<>>

(* compute_metrics lines 253 and 264, detect_cycles lines 196-198          *)
BuildGraphAt(from, defs) ==
    /\ pc = from
    /\ graph' = schema_graph(heap, defs)
    /\ roots' = Keys(defs)
    /\ visited' = {} /\ stack' = {} /\ cyc' = {} /\ calls' = <<>>
    /\ pc' = "dfs"
    /\ UNCHANGED <<heap, spec, mergeVars, metricVars, depthVars, nodeVars, circular>>
BuildGraph == BuildGraphAt("start", collect_schema_defs(heap, spec).val)

(* lines 212-213: for n in graph: dfs(n)                                   *)
DfsRoot ==
    /\ pc = "dfs" /\ calls = <<>> /\ roots # <<>>
    /\ roots' = Tail(roots)
    /\ Enter(Head(roots))
    /\ UNCHANGED <<heap, pc, spec, mergeVars, metricVars, depthVars, nodeVars, graph, circular>>

(* lines 208-209: for nxt in graph.get(node, ()): dfs(nxt), the set in any *)
(* iteration order                                                         *)
DfsNext ==
    /\ pc = "dfs" /\ calls # <<>>
    /\ \E nxt \in calls[Len(calls)].todo :
          LET rest == [calls EXCEPT ![Len(calls)].todo = @ \ {nxt}]
          IN IF nxt \in stack
             THEN /\ cyc' = MarkCycle(cyc, stack, nxt)
                  /\ calls' = rest
                  /\ UNCHANGED <<visited, stack>>
             ELSE IF nxt \in visited
             THEN /\ calls' = rest
                  /\ UNCHANGED <<visited, stack, cyc>>
             ELSE /\ visited' = visited \cup {nxt}
                  /\ stack' = stack \cup {nxt}
                  /\ calls' = Append(rest, [node |-> nxt, todo |-> Successors(graph, nxt)])
                  /\ UNCHANGED cyc
    /\ UNCHANGED <<heap, pc, spec, mergeVars, metricVars, depthVars, nodeVars, graph, roots, circular>>

(* line 210: the loop of dfs(node) is over                                 *)
DfsReturn ==
    /\ pc = "dfs" /\ calls # <<>>
    /\ calls[Len(calls)].todo = {}
    /\ stack' = StackRemove(stack, calls[Len(calls)].node)
    /\ calls' = SubSeq(calls, 1, Len(calls) - 1)
    /\ UNCHANGED <<heap, pc, spec, mergeVars, metricVars, depthVars, nodeVars, graph, roots, visited, cyc, circular>>

(* sorted(): names are compared atom by atom, atoms in the order of        *)
(* NameAtoms.                                                              *)
NameAtoms == <<"A", "B", "C", "Z">>
AtomRank(w) == CHOOSE j \in 1..Len(NameAtoms) : NameAtoms[j] = w
RECURSIVE StrLess(_, _)
StrLess(s, t) ==
    IF s = <<>> THEN t # <<>>
    ELSE IF t = <<>> THEN FALSE
    ELSE IF Head(s) = Head(t) THEN StrLess(Tail(s), Tail(t))
    ELSE AtomRank(Head(s)) < AtomRank(Head(t))
RECURSIVE Sorted(_)
Sorted(names) ==
    IF names = {} THEN <<>>
    ELSE LET least == CHOOSE x \in names : \A y \in names \ {x} : StrLess(x.v, y.v)
         IN <<least>> \o Sorted(names \ {least})

(* line 214 and compute_metrics line 265: circular = sorted(detect_cycles) *)
CyclesDoneTo(to) ==
    /\ pc = "dfs" /\ calls = <<>> /\ roots = <<>>
    /\ circular' = Sorted(cyc)
    /\ pc' = to
    /\ UNCHANGED <<heap, spec, mergeVars, metricVars, depthVars, nodeVars, graph, roots, visited, stack, cyc, calls>>
CyclesDone == CyclesDoneTo("done")

NextCycles == BuildGraph \/ DfsRoot \/ DfsNext \/ DfsReturn \/ CyclesDone

SpecCycles == InitCycles /\ [][NextCycles]_vars

----------------------------------------------------------------------------
(* Properties of the cycle detector.                                       *)

(* report["schemas"]["circularRefCount"], line 381                         *)
circularRefCount == Len(circular)

RECURSIVE ReachFrom(_, _, _)
ReachFrom(g, frontier, found) ==
    IF frontier \subseteq found THEN found
    ELSE ReachFrom(g, UNION {Successors(g, v) : v \in frontier}, found \cup frontier)
(* The vertices reached from v by one edge or more.                        *)
Reach(g, v) == ReachFrom(g, Successors(g, v), {})
OnCycle(g, v) == v \in Reach(g, v)

(* The edges of g are those of one simple cycle through the vertices K.    *)
SimpleCycle(g, K) ==
    /\ K # {} /\ K \subseteq DOMAIN g
    /\ \A v \in DOMAIN g :
          IF v \in K THEN Cardinality(g[v]) = 1 /\ g[v] \subseteq K ELSE g[v] = {}
    /\ \A u \in K : K \subseteq Reach(g, u)

(* C4: when detect_cycles has returned, every named schema that lies on a  *)
(* directed cycle of the reference graph is in the returned set, whatever  *)
(* the order in which the vertices and the successors were visited.        *)
C4_AllCyclicReported ==
    pc = "done" => \A v \in DOMAIN graph : OnCycle(graph, v) => v \in cyc

(* C5: when the reference graph is one simple cycle (a self reference, a   *)
(* mutual pair, a chain A->B->C->A), circularRefSchemas holds exactly the  *)
(* schemas of that cycle and circularRefCount is the cycle's length.       *)
C5_SimpleCycleReported ==
    pc = "done" =>
        \A K \in SUBSET DOMAIN graph :
            SimpleCycle(graph, K) =>
                /\ Range(circular) = K
                /\ circularRefCount = Cardinality(K)

C5_Witness ==
    /\ pc = "done"
    /\ SimpleCycle(graph, {S("A"), S("B"), S("C")})
    /\ circularRefCount = 3

(* C6: a named schema with no reference to a named schema of the document  *)
(* is at no point of the traversal in cyc, although a back-edge marks      *)
(* every vertex that is on the stack.                                      *)
C6_SinkNeverCyclic ==
    \A v \in DOMAIN graph :
        Successors(graph, v) \cap DOMAIN graph = {} => v \notin cyc

C6_Witness ==
    /\ pc = "done"
    /\ \E u \in cyc, v \in DOMAIN graph :
          /\ v \in graph[u]
          /\ graph[v] = {}
          /\ v \in visited
          /\ v \notin cyc

----------------------------------------------------------------------------
(* openapi_complexity.py: schema_depth, lines 217-240, one call or return  *)
(* at a time.  A frame is [todo, depths]: the children the call has still  *)
(* to measure, in the order of lines 229-239, and its list `depths`.       *)

Values(es) == [j \in 1..Len(es) |-> es[j].val]

RECURSIVE Max(_)
Max(q) ==
    IF Len(q) = 1 THEN q[1]
    ELSE LET m == Max(Tail(q)) IN IF q[1] >= m THEN q[1] ELSE m

(* lines 236-239: the members of schema[key] when it is a list             *)
Branches(h, schema, key) ==
    IF Has(h, schema, S(key)) /\ IsList(Get(h, schema, S(key)))
    THEN Values(Entries(h, Get(h, schema, S(key))))
    ELSE <<>>

(* lines 229-239: what schema_depth(schema) recurses into                  *)
Children(h, schema) ==
    (IF IsDict(GetOr(h, schema, S("properties"), None))
     THEN Values(Entries(h, Get(h, schema, S("properties"))))
     ELSE <<>>)
    \o (IF Has(h, schema, S("items")) THEN <<Get(h, schema, S("items"))>> ELSE <<>>)
    \o Branches(h, schema, "allOf") \o Branches(h, schema, "anyOf") \o Branches(h, schema, "oneOf")

(* line 227: depths = [0]                                                  *)
Frame(h, schema) == [todo |-> Children(h, schema), depths |-> <<0>>]

(* A schema_depth without the guard of lines 223-224.                      *)
NeverSeen(ids, id) == FALSE

(* line 223: obj_id in seen                                                *)
AlreadySeen(ids, id) == id \in ids

(* The documents schema_depth is run on: MaxNodes named schemas, each with *)
(* `items`, one property or one `allOf` branch that is a scalar or one of  *)
(* the schemas itself (a YAML alias), so that mappings are shared and may  *)
(* contain themselves.                                                     *)
MaxNodes == 2

NodeNames == <<"A", "B", "C", "D", "E">>
DepthKinds == <<"properties", "items", "allOf">>

(* The heap of such a document before the schemas have keys: the schemas   *)
(* at 1..MaxNodes, the mapping of properties and the allOf list of schema  *)
(* j behind them, then components.schemas, components and the document.    *)
PropsAddr(j) == MaxNodes + 2 * (j - 1) + 1
AllOfAddr(j) == MaxNodes + 2 * (j - 1) + 2
SchemasAddr == 3 * MaxNodes + 1
EmptySchemas ==
    [j \in 1..MaxNodes |-> [k |-> "dict", e |-> <<>>]]
    \o [c \in 1..(2 * MaxNodes) |-> [k |-> IF c % 2 = 1 THEN "dict" ELSE "list", e |-> <<>>]]
    \o << [k |-> "dict", e |-> [j \in 1..MaxNodes |-> [key |-> S(NodeNames[j]), val |-> Obj("dict", j)]]],
          [k |-> "dict", e |-> <<[key |-> S("schemas"), val |-> Obj("dict", SchemasAddr)]>>],
          [k |-> "dict", e |-> <<[key |-> S("components"), val |-> Obj("dict", SchemasAddr + 1)]>>] >>

(* Schema j gets the key DepthKinds[kd]; t = 0 makes its value a scalar,   *)
(* another t makes schema t its items, its property `parent` or its allOf  *)
(* branch.                                                                 *)
Alias(t) == Obj("dict", t)
WithKey(h, j, kd, t) ==
    LET schema == Obj("dict", j)
        key == S(DepthKinds[kd])
    IN IF t = 0 THEN Put(h, schema, key, Num("5"))
       ELSE CASE DepthKinds[kd] = "items" -> Put(h, schema, key, Alias(t))
              [] DepthKinds[kd] = "properties" ->
                    Put(Put(h, Obj("dict", PropsAddr(j)), S("parent"), Alias(t)),
                        schema, key, Obj("dict", PropsAddr(j)))
              [] DepthKinds[kd] = "allOf" ->
                    Put(ListAppend(h, Obj("list", AllOfAddr(j)), Alias(t)),
                        schema, key, Obj("list", AllOfAddr(j)))

RECURSIVE KeyCount(_, _)
KeyCount(h, j) == IF j = 0 THEN 0 ELSE Len(h[j].e) + KeyCount(h, j - 1)

(* Python's recursion limit, scaled to the documents: above the number of  *)
(* mappings a document has.                                                *)
RecursionLimit == 3 * MaxNodes + 4

InitDepth ==
    /\ heap = EmptySchemas /\ spec = Obj("dict", SchemasAddr + 2)
    /\ pc = "load"
    /\ MergeIdle /\ CycleIdle /\ NodeIdle /\ MetricIdle
    /\ seen = {} /\ frames = <<>> /\ todo = <<>> /\ depths = <<>> /\ max_depth = 0

(* load_spec, lines 45-47: the loader constructs the next key of a schema, *)
(* an alias resolved to the object of its anchor; schemas and keys in      *)
(* document order                                                          *)
LoadKey ==
    /\ pc = "load"
    /\ KeyCount(heap, MaxNodes) < MaxNodes
    /\ \E j \in 1..MaxNodes, kd \in 1..Len(DepthKinds), t \in 0..MaxNodes :
          /\ \A j2 \in (j + 1)..MaxNodes : heap[j2].e = <<>>
          /\ \A kd2 \in kd..Len(DepthKinds) : ~Has(heap, Obj("dict", j), S(DepthKinds[kd2]))
          /\ heap' = WithKey(heap, j, kd, t)
    /\ UNCHANGED <<pc, spec, mergeVars, metricVars, cycleVars, nodeVars, depthVars>>

(* load_spec returns                                                       *)
LoadDone ==
    /\ pc = "load"
    /\ pc' = "start"
    /\ UNCHANGED <<heap, spec, mergeVars, metricVars, cycleVars, nodeVars, depthVars>>

(* compute_metrics line 253 and the head of the comprehension of line 267  *)
DepthStartAt(from, defs) ==
    /\ pc = from
    /\ \E named \in {defs} : todo' = Values(named)
    /\ depths' = <<>>
    /\ pc' = "depth"
    /\ UNCHANGED <<heap, spec, mergeVars, metricVars, cycleVars, nodeVars, seen, frames, max_depth>>
DepthStart == DepthStartAt("start", collect_schema_defs(heap, spec).val)

(* line 267: schema_depth(s) for the next named schema, lines 218-227      *)
DepthCall ==
    /\ pc = "depth" /\ frames = <<>> /\ todo # <<>>
    /\ seen' = {Head(todo).a}
    /\ frames' = <<Frame(heap, Head(todo))>>
    /\ todo' = Tail(todo)
    /\ UNCHANGED <<heap, pc, spec, mergeVars, metricVars, cycleVars, nodeVars, depths, max_depth>>

(* lines 220-224 in a recursive call: the child is no mapping, or one that *)
(* was entered before; the call returns 0                                  *)
DepthLeaf ==
    /\ pc = "depth" /\ frames # <<>>
    /\ frames[Len(frames)].todo # <<>>
    /\ LET child == Head(frames[Len(frames)].todo)
       IN /\ ~IsDict(child) \/ AlreadySeen(seen, child.a)
          /\ frames' = [frames EXCEPT ![Len(frames)] =
                           [todo |-> Tail(@.todo), depths |-> Append(@.depths, 1 + 0)]]
    /\ UNCHANGED <<heap, pc, spec, mergeVars, metricVars, cycleVars, nodeVars, seen, todo, depths, max_depth>>

(* lines 220-227 in a recursive call: the child is entered                 *)
DepthEnter ==
    /\ pc = "depth" /\ frames # <<>>
    /\ frames[Len(frames)].todo # <<>>
    /\ LET child == Head(frames[Len(frames)].todo)
       IN /\ IsDict(child) /\ ~AlreadySeen(seen, child.a)
          /\ IF Len(frames) >= RecursionLimit
             THEN pc' = "RecursionError" /\ UNCHANGED <<seen, frames>>
             ELSE /\ seen' = seen \cup {child.a}
                  /\ frames' = Append([frames EXCEPT ![Len(frames)].todo = Tail(@)],
                                      Frame(heap, child))
                  /\ UNCHANGED pc
    /\ UNCHANGED <<heap, spec, mergeVars, metricVars, cycleVars, nodeVars, todo, depths, max_depth>>

(* line 240: return max(depths), to the caller's depths.append(1 + ...)    *)
(* or to the list of line 267                                              *)
DepthReturn ==
    /\ pc = "depth" /\ frames # <<>>
    /\ frames[Len(frames)].todo = <<>>
    /\ LET ret == Max(frames[Len(frames)].depths)
           callers == SubSeq(frames, 1, Len(frames) - 1)
       IN IF callers = <<>>
          THEN frames' = <<>> /\ depths' = Append(depths, ret)
          ELSE /\ frames' = [callers EXCEPT ![Len(callers)].depths = Append(@, 1 + ret)]
               /\ UNCHANGED depths
    /\ UNCHANGED <<heap, pc, spec, mergeVars, metricVars, cycleVars, nodeVars, seen, todo, max_depth>>

(* line 268: max_depth = max(depths) if depths else 0                      *)
DepthsDoneTo(to) ==
    /\ pc = "depth" /\ frames = <<>> /\ todo = <<>>
    /\ max_depth' = IF depths # <<>> THEN Max(depths) ELSE 0
    /\ pc' = to
    /\ UNCHANGED <<heap, spec, mergeVars, metricVars, cycleVars, nodeVars, seen, frames, todo, depths>>
DepthsDone == DepthsDoneTo("done")

NextDepth == LoadKey \/ LoadDone \/ DepthStart \/ DepthCall \/ DepthLeaf \/ DepthEnter \/ DepthReturn \/ DepthsDone

(* The interpreter runs the calls one after the other to their end.        *)
SpecDepth == InitDepth /\ [][NextDepth]_vars /\ WF_vars(NextDepth)

(* C7: schema_depth terminates on every document, also when a mapping is   *)
(* its own `items`, property or composition branch, and returns a depth    *)
(* that is not negative and not above the number of mappings.              *)
C7_DepthTerminates ==
    <>(/\ pc = "done"
       /\ Len(depths) = MaxNodes
       /\ \A j \in 1..MaxNodes : depths[j] >= 0 /\ depths[j] <= MaxNodes
       /\ max_depth >= 0)

(* A schema that is its own items has been measured.                       *)
C7_Witness ==
    /\ pc = "done"
    /\ \E j \in 1..MaxNodes :
          /\ Has(heap, Obj("dict", j), S("items"))
          /\ Get(heap, Obj("dict", j), S("items")) = Obj("dict", j)
          /\ depths[j] = 1

----------------------------------------------------------------------------
(* openapi_complexity.py: iter_schema_nodes, lines 86-181.  The generator  *)
(* is the sequence of what it yields, [ptr, node], ended by a `raise`      *)
(* entry where it raises.                                                  *)

Yield(ptr, node) == [raise |-> FALSE, ptr |-> ptr, node |-> node]
Raises == [raise |-> TRUE, ptr |-> <<>>, node |-> None]

RECURSIVE Concat(_)
Concat(qs) == IF qs = <<>> THEN <<>> ELSE Head(qs) \o Concat(Tail(qs))
(* for j, en in enumerate(es, 1): yield from F(j, en)                      *)
FlatMap(es, F(_, _)) == Concat([j \in 1..Len(es) |-> F(j, es[j])])

UpToRaise(q) ==
    IF \E j \in 1..Len(q) : q[j].raise
    THEN SubSeq(q, 1, CHOOSE j \in 1..Len(q) : q[j].raise /\ \A l \in 1..(j - 1) : ~q[l].raise)
    ELSE q

(* str(i) of an index                                                      *)
Digits == <<"0", "1", "2", "3", "4", "5", "6", "7", "8", "9">>
IntStr(n) == <<Digits[n + 1]>>

(* str.lower, on the words that have capitals                              *)
LowerAtom(w) ==
    CASE w = "GET" -> "get"
      [] w = "Get" -> "get"
      [] w = "POST" -> "post"
      [] w = "Samples" -> "samples"
      [] w = "Application" -> "application"
      [] OTHER -> w
Lower(str) == [j \in 1..Len(str) |-> LowerAtom(str[j])]

(* line 42                                                                 *)
HTTP_METHODS ==
    {<<"get">>, <<"put">>, <<"post">>, <<"delete">>, <<"options">>, <<"head">>, <<"patch">>, <<"trace">>}

IsSchema(h, holder) == IsDict(holder) /\ IsDict(GetOr(h, holder, S("schema"), None))

(* lines 122-126, 132-136, 167-171, 177-181: the schemas of holder's       *)
(* content, one per media type                                             *)
ContentNodes(h, prefix, holder) ==
    LET content == GetOrEmpty(h, holder, S("content"))
    IN IF ~IsDict(content) THEN <<>>
       ELSE FlatMap(Entries(h, content), LAMBDA j, en :
                IF IsSchema(h, en.val)
                THEN <<Yield(prefix \o <<"/", "content", "/">> \o StrOf(en.key) \o <<"/", "schema">>,
                             Get(h, en.val, S("schema")))>>
                ELSE <<>>)

(* lines 150-153, 160-163: the schemas of holder's parameters, by index    *)
ParamNodes(h, prefix, holder) ==
    LET prms == GetOr(h, holder, S("parameters"), None)
    IN IF ~IsList(prms) THEN <<>>
       ELSE FlatMap(Entries(h, prms), LAMBDA j, en :
                IF IsSchema(h, en.val)
                THEN <<Yield(prefix \o <<"/", "parameters", "/">> \o IntStr(j - 1) \o <<"/", "schema">>,
                             Get(h, en.val, S("schema")))>>
                ELSE <<>>)

(* lines 103-142: one section of components; .items() raises on what is    *)
(* not a mapping                                                           *)
ComponentNodes(h, comps, section, F(_, _)) ==
    LET named == GetOrEmpty(h, comps, S(section))
    IN IF ~IsDict(named) THEN <<Raises>> ELSE FlatMap(Entries(h, named), F)

ComponentPrefix(section, name) == <<"#", "/", "components", "/", section, "/">> \o StrOf(name)

(* lines 159-181: the schemas of one operation                             *)
OperationNodes(h, prefix, op) ==
    ParamNodes(h, prefix, op)
    \o (IF IsDict(GetOr(h, op, S("requestBody"), None))
        THEN ContentNodes(h, prefix \o <<"/", "requestBody">>, Get(h, op, S("requestBody")))
        ELSE <<>>)
    \o (LET responses == GetOrEmpty(h, op, S("responses"))
        IN IF ~IsDict(responses) THEN <<>>
           ELSE FlatMap(Entries(h, responses), LAMBDA j, en :
                    IF IsDict(en.val)
                    THEN ContentNodes(h, prefix \o <<"/", "responses", "/">> \o StrOf(en.key), en.val)
                    ELSE <<>>))

(* lines 145-181: the schemas of one path item; method.lower() raises on a *)
(* key that is no string                                                   *)
PathItemNodes(h, pth, item) ==
    IF ~IsDict(item) THEN <<>>
    ELSE LET prefix == <<"#", "/", "paths", "/">> \o StrOf(pth)
         IN ParamNodes(h, prefix, item)
            \o FlatMap(Entries(h, item), LAMBDA j, en :
                   IF ~IsStr(en.key) THEN <<Raises>>
                   ELSE IF Lower(en.key.v) \notin HTTP_METHODS THEN <<>>
                   ELSE IF ~IsDict(en.val) THEN <<>>
                   ELSE OperationNodes(h, prefix \o <<"/">> \o en.key.v, en.val))

iter_schema_nodes(h, sp) ==
    IF ~IsDict(sp) THEN <<Raises>>
    ELSE UpToRaise(
        (LET comps == GetOrEmpty(h, sp, S("components"))
         IN IF ~IsDict(comps) THEN <<Raises>>
            ELSE ComponentNodes(h, comps, "schemas", LAMBDA j, en :
                     IF IsDict(en.val) THEN <<Yield(ComponentPrefix("schemas", en.key), en.val)>> ELSE <<>>)
              \o ComponentNodes(h, comps, "parameters", LAMBDA j, en :
                     IF IsSchema(h, en.val)
                     THEN <<Yield(ComponentPrefix("parameters", en.key) \o <<"/", "schema">>,
                                  Get(h, en.val, S("schema")))>>
                     ELSE <<>>)
              \o ComponentNodes(h, comps, "requestBodies", LAMBDA j, en :
                     IF IsDict(en.val)
                     THEN ContentNodes(h, ComponentPrefix("requestBodies", en.key), en.val) ELSE <<>>)
              \o ComponentNodes(h, comps, "responses", LAMBDA j, en :
                     IF IsDict(en.val)
                     THEN ContentNodes(h, ComponentPrefix("responses", en.key), en.val) ELSE <<>>)
              \o ComponentNodes(h, comps, "headers", LAMBDA j, en :
                     IF IsSchema(h, en.val)
                     THEN <<Yield(ComponentPrefix("headers", en.key) \o <<"/", "schema">>,
                                  Get(h, en.val, S("schema")))>>
                     ELSE <<>>))
        \o (LET paths == GetOrEmpty(h, sp, S("paths"))
            IN IF ~IsDict(paths) THEN <<Raises>>
               ELSE FlatMap(Entries(h, paths), LAMBDA j, en : PathItemNodes(h, en.key, en.val))))

----------------------------------------------------------------------------
(* openapi_complexity.py: count_polymorphism, lines 271-315                *)

NoCounts ==
    [union_nodes |-> 0, union_branches |-> 0, max_union_branches |-> 0,
     allof_items |-> 0, discriminators |-> 0,
     oneof_nodes |-> 0, oneof_branches |-> 0, anyof_nodes |-> 0, anyof_branches |-> 0]

(* The counters after c and d: sums, and the largest of the maxima.        *)
AddCounts(c, d) ==
    [union_nodes |-> c.union_nodes + d.union_nodes,
     union_branches |-> c.union_branches + d.union_branches,
     max_union_branches |-> IF d.max_union_branches > c.max_union_branches
                            THEN d.max_union_branches ELSE c.max_union_branches,
     allof_items |-> c.allof_items + d.allof_items,
     discriminators |-> c.discriminators + d.discriminators,
     oneof_nodes |-> c.oneof_nodes + d.oneof_nodes,
     oneof_branches |-> c.oneof_branches + d.oneof_branches,
     anyof_nodes |-> c.anyof_nodes + d.anyof_nodes,
     anyof_branches |-> c.anyof_branches + d.anyof_branches]

(* len(n[key]) when n[key] is a list, -1 otherwise                         *)
ListLen(h, n, key) ==
    IF IsList(GetOr(h, n, S(key), None)) THEN Len(Entries(h, Get(h, n, S(key)))) ELSE -1

(* lines 286-307: what walk counts at the mapping n itself                 *)
CountsHere(h, n) ==
    LET one == ListLen(h, n, "oneOf")
        any == ListLen(h, n, "anyOf")
        all == ListLen(h, n, "allOf")
        branches_here == (IF one >= 0 THEN one ELSE 0) + (IF any >= 0 THEN any ELSE 0)
    IN [union_nodes |-> (IF one >= 0 THEN 1 ELSE 0) + (IF any >= 0 THEN 1 ELSE 0),
        union_branches |-> branches_here,
        max_union_branches |-> branches_here,
        allof_items |-> IF all >= 0 THEN all ELSE 0,
        discriminators |-> IF Has(h, n, S("discriminator")) THEN 1 ELSE 0,
        oneof_nodes |-> IF one >= 0 THEN 1 ELSE 0,
        oneof_branches |-> IF one >= 0 THEN one ELSE 0,
        anyof_nodes |-> IF any >= 0 THEN 1 ELSE 0,
        anyof_branches |-> IF any >= 0 THEN any ELSE 0]

RECURSIVE count_polymorphism(_, _), CountAll(_, _)
count_polymorphism(h, n) ==
    IF IsDict(n) THEN AddCounts(CountsHere(h, n), CountAll(h, Entries(h, n)))
    ELSE IF IsList(n) THEN CountAll(h, Entries(h, n))
    ELSE NoCounts
CountAll(h, es) ==
    IF es = <<>> THEN NoCounts
    ELSE AddCounts(count_polymorphism(h, Head(es).val), CountAll(h, Tail(es)))

----------------------------------------------------------------------------
(* compute_metrics lines 319-343: the scan of the schema nodes.            *)

(* The documents scanned: up to MaxLocs of the schema-bearing locations of *)
(* Locations, each holding a schema of its own.                            *)
MaxLocs == 3

Plain == D(<<E("type", TS("string"))>>)
Union == D(<<E("oneOf", L(<<D(<<E("type", TS("string"))>>), D(<<E("type", TS("integer"))>>)>>))>>)
Str(atoms) == Sc("str", atoms)
Holder(t) == D(<<E("schema", t)>>)
Content(mt, t) == D(<<E("content", D(<<EK(Str(mt), Holder(t))>>))>>)
Locations ==
    { "schemas.A", "parameters.P", "headers.H", "responses.R",
      "requestBodies.a:b/content/c", "requestBodies.a/content/b:c",
      "/a.get.parameters", "/a/get.parameters", "/a.GET.parameters",
      "/a.get.requestBody", "/a.get.responses.200", "/a.get.responses.'200'" }

If(cond, es) == IF cond THEN es ELSE <<>>
Json == <<"application", "/", "json">>
(* The operation `get` of the path item /a                                 *)
GetOperation(at) ==
    D(If("/a.get.parameters" \in at, <<E("parameters", L(<<Holder(Plain)>>))>>)
      \o If("/a.get.requestBody" \in at, <<E("requestBody", Content(Json, Plain))>>)
      \o If("/a.get.responses.200" \in at \/ "/a.get.responses.'200'" \in at,
            <<E("responses",
                D(If("/a.get.responses.200" \in at, <<EK(Num("200"), Content(Json, Plain))>>)
                  \o If("/a.get.responses.'200'" \in at,
                        <<EK(Str(<<"200">>), Content(Json, Union))>>)))>>))

UnderGet ==
    {"/a.get.parameters", "/a.get.requestBody", "/a.get.responses.200", "/a.get.responses.'200'"}

LocatedDoc(at) ==
    D(<< E("openapi", T(Sc("str", V303))),
         E("components",
           D(<< E("schemas", D(If("schemas.A" \in at, <<E("A", Union)>>))),
                E("parameters", D(If("parameters.P" \in at, <<E("P", Holder(Plain))>>))),
                E("requestBodies",
                  D(If("requestBodies.a:b/content/c" \in at,
                       <<EK(Str(<<"a">>), Content(<<"b", "/", "content", "/", "c">>, Plain))>>)
                    \o If("requestBodies.a/content/b:c" \in at,
                          <<EK(Str(<<"a", "/", "content", "/", "b">>), Content(<<"c">>, Union))>>))),
                E("responses", D(If("responses.R" \in at, <<E("R", Content(Json, Plain))>>))),
                E("headers", D(If("headers.H" \in at, <<E("H", Holder(Plain))>>))) >>)),
         E("paths",
           D(If(at \cap (UnderGet \cup {"/a.GET.parameters"}) # {},
                <<EK(Str(<<"/", "a">>),
                     D(If(at \cap UnderGet # {}, <<E("get", GetOperation(at))>>)
                       \o If("/a.GET.parameters" \in at,
                             <<E("GET", D(<<E("parameters", L(<<Holder(Union)>>))>>))>>)))>>)
             \o If("/a/get.parameters" \in at,
                   <<EK(Str(<<"/", "a", "/", "get">>),
                        D(<<E("parameters", L(<<Holder(Union)>>))>>))>>))) >>)

(* The subsets of set with k members at most.                              *)
RECURSIVE SubsetsUpTo(_, _)
SubsetsUpTo(set, k) ==
    IF k = 0 THEN {{}}
    ELSE LET P == SubsetsUpTo(set, k - 1) IN P \cup {q \cup {x} : q \in P, x \in set}

InitNodes ==
    \E at \in SubsetsUpTo(Locations, MaxLocs) :
        /\ LET ld == Load(<<>>, LocatedDoc(at))
           IN heap = ld.h /\ spec = ld.v
        /\ pc = "start"
        /\ MergeIdle /\ CycleIdle /\ DepthIdle /\ MetricIdle
        /\ nodes = <<>> /\ visited_ptrs = {} /\ totals = NoCounts

(* lines 319-330: the totals are zeroed and the generator made             *)
ScanStartAt(from) ==
    /\ pc = from
    /\ nodes' = iter_schema_nodes(heap, spec)
    /\ visited_ptrs' = {}
    /\ totals' = NoCounts
    /\ pc' = "scan"
    /\ UNCHANGED <<heap, spec, mergeVars, metricVars, cycleVars, depthVars>>
ScanStart == ScanStartAt("start")

(* lines 331-332: the address was seen before                              *)
SkipNode ==
    /\ pc = "scan" /\ nodes # <<>>
    /\ ~Head(nodes).raise
    /\ Head(nodes).ptr \in visited_ptrs
    /\ nodes' = Tail(nodes)
    /\ UNCHANGED <<heap, pc, spec, mergeVars, metricVars, cycleVars, depthVars, visited_ptrs, totals>>

(* lines 333-343                                                           *)
ScanNode ==
    /\ pc = "scan" /\ nodes # <<>>
    /\ ~Head(nodes).raise
    /\ Head(nodes).ptr \notin visited_ptrs
    /\ visited_ptrs' = visited_ptrs \cup {Head(nodes).ptr}
    /\ totals' = AddCounts(totals, count_polymorphism(heap, Head(nodes).node))
    /\ nodes' = Tail(nodes)
    /\ UNCHANGED <<heap, pc, spec, mergeVars, metricVars, cycleVars, depthVars>>

(* the generator is exhausted                                              *)
ScanDoneTo(to) ==
    /\ pc = "scan" /\ nodes = <<>>
    /\ pc' = to
    /\ UNCHANGED <<heap, spec, mergeVars, metricVars, cycleVars, depthVars, nodeVars>>
ScanDone == ScanDoneTo("done")

NextNodes == ScanStart \/ SkipNode \/ ScanNode \/ ScanDone

SpecNodes == InitNodes /\ [][NextNodes]_vars

(* report["schemas"]["polymorphism"]["scannedSchemaNodes"], line 395       *)
scannedSchemaNodes == Cardinality(visited_ptrs)

(* C8: within one document no two schema-bearing locations are yielded     *)
(* with the same address, so that no node is skipped by the deduplication  *)
(* and scannedSchemaNodes is the number of locations.                      *)
C8_AddressesUnique ==
    pc \in {"scan", "done"} =>
        LET yielded == iter_schema_nodes(heap, spec)
        IN /\ \A j, l \in 1..Len(yielded) : j # l => yielded[j].ptr # yielded[l].ptr
           /\ pc = "done" => scannedSchemaNodes = Len(yielded)

----------------------------------------------------------------------------
(* openapi_complexity.py: compute_metrics up to the report, lines 243-403, *)
(* stage by stage.  A stage that raises ends the run in pc = "raised".     *)

(* len(x); of a string, counted in the atoms it is written with            *)
LenOf(h, x) == IF x.k \in {"dict", "list"} THEN Len(Entries(h, x)) ELSE Len(x.v)
(* len(x) raises TypeError                                                 *)
Unsized(x) == x.k \in {"num", "none"}

(* lines 55 and 58: len(parameters) when it is a list, else 0              *)
ParamCount(h, holder) ==
    IF IsList(GetOr(h, holder, S("parameters"), None))
    THEN Len(Entries(h, Get(h, holder, S("parameters"))))
    ELSE 0

(* iter_operations, lines 50-61: what it yields, ended by a `raise` entry  *)
(* where .items() or .lower() raises                                       *)
iter_operations(h, sp) ==
    LET paths == GetOrEmpty(h, sp, S("paths"))
    IN IF ~IsDict(paths) THEN <<Raises>>
       ELSE UpToRaise(FlatMap(Entries(h, paths), LAMBDA j, pe :
                IF ~IsDict(pe.val) THEN <<>>
                ELSE FlatMap(Entries(h, pe.val), LAMBDA l, en :
                         IF ~IsStr(en.key) THEN <<Raises>>
                         ELSE IF Lower(en.key.v) \in HTTP_METHODS /\ IsDict(en.val)
                         THEN <<[raise |-> FALSE, p |-> pe.key, method |-> Lower(en.key.v),
                                 total_params |-> ParamCount(h, pe.val) + ParamCount(h, en.val)]>>
                         ELSE <<>>)))

HasRaise(q) == \E j \in 1..Len(q) : q[j].raise

(* lines 244-251                                                           *)
CountOperations ==
    /\ pc = "start"
    /\ LET paths_obj == GetOrEmpty(heap, spec, S("paths"))
           ops == iter_operations(heap, spec)
       IN IF Unsized(paths_obj) \/ HasRaise(ops)
          THEN pc' = "raised" /\ UNCHANGED <<path_count, operations>>
          ELSE /\ path_count' = LenOf(heap, paths_obj)
               /\ operations' = ops
               /\ pc' = "schemas"
    /\ UNCHANGED <<heap, spec, mergeVars, cycleVars, depthVars, nodeVars, adviceVars,
                   schemas, prop_counts, all_refs, poly_ref_targets, report>>

(* line 256: v.get("properties", {}) or {}                                 *)
PropertiesOf(h, v) == GetOrEmpty(h, v, S("properties"))

(* lines 253-258                                                           *)
CountSchemas ==
    /\ pc = "schemas"
    /\ LET defs == collect_schema_defs(heap, spec)
           object_schemas ==
               SelectSeq(defs.val, LAMBDA en : GetOr(heap, en.val, S("type"), None) = S("object"))
       IN IF defs.err \/ \E j \in 1..Len(object_schemas) :
                            Unsized(PropertiesOf(heap, object_schemas[j].val))
          THEN pc' = "raised" /\ UNCHANGED <<schemas, prop_counts>>
          ELSE /\ schemas' = defs.val
               /\ prop_counts' = [j \in 1..Len(object_schemas) |->
                                     LenOf(heap, PropertiesOf(heap, object_schemas[j].val))]
               /\ pc' = "refs"
    /\ UNCHANGED <<heap, spec, mergeVars, cycleVars, depthVars, nodeVars, adviceVars,
                   path_count, operations, all_refs, poly_ref_targets, report>>

(* lines 260-262                                                           *)
CollectRefs ==
    /\ pc = "refs"
    /\ all_refs' = find_refs(heap, spec)
    /\ pc' = "graph"
    /\ UNCHANGED <<heap, spec, mergeVars, cycleVars, depthVars, nodeVars, adviceVars,
                   path_count, operations, schemas, prop_counts, poly_ref_targets, report>>

(* lines 264-268 and 319-343: the cycles, the depths and the scan          *)
GraphStage == BuildGraphAt("graph", schemas)
CycleStage == CyclesDoneTo("depths")
DepthStage == DepthStartAt("depths", schemas)
MaxDepthStage == DepthsDoneTo("nodes")
ScanStage == ScanStartAt("nodes")
ScannedStage == ScanDoneTo("targets")

(* line 330: iter_schema_nodes raises in the loop                          *)
ScanRaise ==
    /\ pc = "scan" /\ nodes # <<>>
    /\ Head(nodes).raise
    /\ pc' = "raised"
    /\ UNCHANGED <<heap, spec, mergeVars, cycleVars, depthVars, nodeVars, metricVars>>

(* line 349: c["union_nodes"] > 0 or c["allof_items"] > 0 or ...           *)
IsPolymorphic(c) == c.union_nodes > 0 \/ c.allof_items > 0 \/ c.discriminators > 0

(* lines 345-363                                                           *)
PolymorphicTargets ==
    /\ pc = "targets"
    /\ LET polymorphic_component_targets ==
               {schemas[j].key : j \in {l \in 1..Len(schemas) :
                                           IsPolymorphic(count_polymorphism(heap, schemas[l].val))}}
           yielded == iter_schema_nodes(heap, spec)
           refs_all_nodes == Concat([j \in 1..Len(yielded) |-> find_refs(heap, yielded[j].node)])
           matching == SelectSeq(refs_all_nodes, RefMatch)
       IN poly_ref_targets' =
              SelectSeq([j \in 1..Len(matching) |-> RefName(matching[j])],
                        LAMBDA t : t \in polymorphic_component_targets)
    /\ pc' = "report"
    /\ UNCHANGED <<heap, spec, mergeVars, cycleVars, depthVars, nodeVars, adviceVars,
                   path_count, operations, schemas, prop_counts, all_refs, report>>

(* lines 365-403; spec.get("info", {}).get raises on what is no mapping    *)
BuildReport ==
    /\ pc = "report"
    /\ LET info == GetOr(heap, spec, S("info"), EmptyMap)
       IN IF ~IsDict(info)
          THEN pc' = "raised" /\ UNCHANGED report
          ELSE /\ report' =
                     [paths |-> path_count,
                      operations |-> Len(operations),
                      schemas |-> Len(schemas),
                      refCount |-> Len(all_refs),
                      circularRefSchemas |-> circular,
                      circularRefCount |-> circularRefCount,
                      maxNestingDepth |-> max_depth,
                      polymorphism |-> totals,
                      polymorphicRefCount |-> Len(poly_ref_targets),
                      scannedSchemaNodes |-> scannedSchemaNodes,
                      openapiVersion |-> GetOr(heap, spec, S("openapi"), None),
                      title |-> GetOr(heap, info, S("title"), None),
                      version |-> GetOr(heap, info, S("version"), None)]
               /\ pc' = "done"
    /\ UNCHANGED <<heap, spec, mergeVars, cycleVars, depthVars, nodeVars, adviceVars,
                   path_count, operations, schemas, prop_counts, all_refs, poly_ref_targets>>

(* The documents analysed: a well-formed document in which up to           *)
(* MaxMalformed regions have another shape than the one expected.          *)
MaxMalformed == 2

Regions == {"paths", "item", "components", "schemas", "properties", "parameters", "info"}
Shapes(region) ==
    CASE region = "paths" -> {"ok", "null", "list", "str", "num"}
      [] region = "item" -> {"ok", "num", "intkey", "twice"}
      [] region = "components" -> {"ok", "null", "list", "num"}
      [] region = "schemas" -> {"ok", "null", "list"}
      [] region = "properties" -> {"ok", "null", "list", "num"}
      [] region = "parameters" -> {"ok", "list"}
      [] region = "info" -> {"ok", "absent", "null", "str", "list"}

(* A region of a shape that is not the expected one.                       *)
Misshapen(shape) ==
    CASE shape = "null" -> T(None)
      [] shape = "list" -> L(<<TS("x")>>)
      [] shape = "str" -> TS("x")
      [] shape = "num" -> TN("5")

GetOp ==
    D(<< E("parameters", L(<<Holder(Plain)>>)),
         E("responses", D(<<E("200", Content(Json, RefNode(SchemaRef("A"))))>>)) >>)
PathItems(shape) ==
    CASE shape = "ok" -> <<EK(Str(<<"/", "a">>), D(<<E("get", GetOp)>>))>>
      [] shape = "num" -> <<EK(Str(<<"/", "a">>), TN("5"))>>
      [] shape = "intkey" -> <<EK(Str(<<"/", "a">>), D(<<EK(Num("5"), D(<<>>)), E("get", GetOp)>>))>>
      [] shape = "twice" -> << EK(Str(<<"/", "a">>), D(<<E("get", GetOp)>>)),
                               EK(Str(<<"/", "a", "/", "get">>),
                                  D(<<E("parameters", L(<<Holder(Union)>>))>>)) >>
NamedSchemas(shape) ==
    D(<< E("A", D(<< E("type", TS("object")),
                    E("properties", D(<<E("b", RefNode(SchemaRef("B")))>>)),
                    E("items", T(None)) >>)),
         E("B", D(<< E("type", TS("object")),
                    E("properties", IF shape = "ok"
                                    THEN D(<<E("a", RefNode(SchemaRef("A"))), E("n", Plain)>>)
                                    ELSE Misshapen(shape)),
                    E("oneOf", L(<<Plain, RefNode(SchemaRef("A"))>>)) >>)) >>)
Components(c) ==
    D(<< E("schemas", IF c["schemas"] = "ok" THEN NamedSchemas(c["properties"])
                      ELSE Misshapen(c["schemas"])) >>
      \o If(c["parameters"] = "list", <<E("parameters", L(<<TS("x")>>))>>))
ShapedDoc(c) ==
    D(<<E("openapi", T(Sc("str", V303)))>>
      \o If(c["info"] # "absent",
            <<E("info", IF c["info"] = "ok" THEN D(<<E("title", TS("t")), E("version", TN("1"))>>)
                        ELSE Misshapen(c["info"]))>>)
      \o <<E("paths", IF c["paths"] = "ok" THEN D(PathItems(c["item"])) ELSE Misshapen(c["paths"]))>>
      \o <<E("components", IF c["components"] = "ok" THEN Components(c)
                           ELSE Misshapen(c["components"]))>>)

ShapeChoices ==
    {c \in [Regions -> UNION {Shapes(r) : r \in Regions}] :
        /\ \A r \in Regions : c[r] \in Shapes(r)
        /\ Cardinality({r \in Regions : c[r] # "ok"}) <= MaxMalformed}

InitMetrics ==
    \E c \in ShapeChoices :
        /\ LET ld == Load(<<>>, ShapedDoc(c))
           IN heap = ld.h /\ spec = ld.v
        /\ pc = "start"
        /\ MergeIdle
        /\ graph = <<>> /\ roots = <<>> /\ visited = {} /\ stack = {} /\ cyc = {}
        /\ calls = <<>> /\ circular = <<>>
        /\ seen = {} /\ frames = <<>> /\ todo = <<>> /\ depths = <<>> /\ max_depth = 0
        /\ nodes = <<>> /\ visited_ptrs = {} /\ totals = NoCounts
        /\ path_count = 0 /\ operations = <<>> /\ schemas = <<>> /\ prop_counts = <<>>
        /\ all_refs = <<>> /\ poly_ref_targets = <<>> /\ report = <<>>
        /\ AdviceIdle

NextMetrics ==
    \/ CountOperations \/ CountSchemas \/ CollectRefs
    \/ GraphStage \/ DfsRoot \/ DfsNext \/ DfsReturn \/ CycleStage
    \/ DepthStage \/ DepthCall \/ DepthLeaf \/ DepthEnter \/ DepthReturn \/ MaxDepthStage
    \/ ScanStage \/ SkipNode \/ ScanNode \/ ScanRaise \/ ScannedStage
    \/ PolymorphicTargets \/ BuildReport

SpecMetrics == InitMetrics /\ [][NextMetrics]_vars

(* Some region of the document has not the shape expected of it.           *)
Malformed ==
    \/ ~IsDict(GetOr(heap, spec, S("paths"), EmptyMap))
    \/ ~IsDict(GetOr(heap, spec, S("components"), EmptyMap))
    \/ ~IsDict(GetOr(heap, spec, S("info"), EmptyMap))
    \/ /\ IsDict(GetOr(heap, spec, S("paths"), EmptyMap))
       /\ \E j \in 1..Len(Entries(heap, Get(heap, spec, S("paths")))) :
             LET item == Entries(heap, Get(heap, spec, S("paths")))[j].val
             IN ~IsDict(item) \/ \E l \in 1..Len(Entries(heap, item)) : ~IsStr(Entries(heap, item)[l].key)
    \/ /\ IsDict(GetOr(heap, spec, S("components"), EmptyMap))
       /\ \E j \in 1..Len(Entries(heap, Get(heap, spec, S("components")))) :
             ~IsDict(Entries(heap, Get(heap, spec, S("components")))[j].val)
    \/ \E j \in 1..Len(schemas) : ~IsDict(GetOr(heap, schemas[j].val, S("properties"), EmptyMap))

(* C9: compute_metrics does not raise on a document with a region of an    *)
(* unexpected shape: it goes on to build the report.                       *)
C9_MalformedNeverRaises == Malformed => pc # "raised"

----------------------------------------------------------------------------
(* openapi_complexity.py: compute_metrics, the score, lines 405-496.       *)
(* Numbers of the score are kept in fixed point: a normalized input in     *)
(* thousandths, avgParameters in hundredths (it is rounded to two places   *)
(* at line 370), the score in thousandths of a point before the rounding   *)
(* and in tenths after it.                                                 *)

Least(a, b) == IF a <= b THEN a ELSE b
Greatest(a, b) == IF a >= b THEN a ELSE b

(* The logarithm to base 2 of n >= 1 in 1024ths, digit by digit: the whole *)
(* part by halving, the fraction by squaring the mantissa m (in 1024ths,   *)
(* 1024 <= m < 2048).  A quotient of two logarithms is the same in every   *)
(* base, so it stands for the quotient of math.log10 at line 411.          *)
RECURSIVE Halvings(_)
Halvings(n) == IF n < 2 THEN 0 ELSE 1 + Halvings(n \div 2)
RECURSIVE Pow2(_)
Pow2(e) == IF e = 0 THEN 1 ELSE 2 * Pow2(e - 1)
RECURSIVE FractionBits(_, _)
FractionBits(m, bits) ==
    IF bits = 0 THEN 0
    ELSE LET sq == (m * m) \div 1024
         IN IF sq >= 2048
            THEN Pow2(bits - 1) + FractionBits(sq \div 2, bits - 1)
            ELSE FractionBits(sq, bits - 1)
Log1024(n) ==
    LET e == Halvings(n)
    IN 1024 * e + FractionBits((n * 1024) \div Pow2(e), 10)

(* A normalization that leaves out the cap at 1.0.                         *)
norm_log_unclamped(x, k) ==
    IF k <= 0 THEN 0
    ELSE (1000 * Log1024(1 + Greatest(0, x))) \div Log1024(1 + k)

(* norm_log, lines 406-411                                                 *)
norm_log(x, k) ==
    IF k <= 0 THEN 0
    ELSE Least(1000, (1000 * Log1024(1 + Greatest(0, x))) \div Log1024(1 + k))

(* lines 437-449                                                           *)
weights ==
    [ops |-> 22, schemas |-> 18, refs |-> 12, paths |-> 8, avg_params |-> 8, depth |-> 10,
     max_params |-> 4, circular |-> 3, poly_union |-> 8, poly_allof |-> 4,
     poly_discriminator |-> 3]

(* round(score, 1), line 470: thousandths of a point to tenths, a half to  *)
(* the even neighbour                                                      *)
Round1(thousandths) ==
    LET q == thousandths \div 100
        r == thousandths % 100
    IN IF r > 50 \/ (r = 50 /\ q % 2 = 1) THEN q + 1 ELSE q

(* label_for_score, lines 472-479, of a score in tenths                    *)
label_for_score(s) ==
    IF s < 250 THEN "Low"
    ELSE IF s < 500 THEN "Moderate"
    ELSE IF s < 750 THEN "High"
    ELSE "Very High"

(* lines 413-470 and 494-495                                               *)
ScoreReport ==
    /\ pc = "score"
    /\ \E n \in {[ops |-> norm_log(report.operations, 500),
                  paths |-> norm_log(report.paths, 300),
                  schemas |-> norm_log(report.schemas, 500),
                  refs |-> norm_log(report.refCount, 2000),
                  avg_params |-> Least(1000, report.avgParameters),
                  max_params |-> Least(1000, report.maxParameters * 50),
                  depth |-> Least(1000, report.maxNestingDepth * 100),
                  circular |-> Least(1000, report.circularRefCount * 100),
                  poly_union |-> Least(1000, report.polymorphism.unionBranchCount * 10),
                  poly_allof |-> Least(1000, report.polymorphism.allOfUsages * 20),
                  poly_discriminator |-> Least(1000, report.polymorphism.discriminatorCount * 40)]} :
          LET score == Round1(n.ops * weights.ops
                              + n.schemas * weights.schemas
                              + n.refs * weights.refs
                              + n.paths * weights.paths
                              + n.avg_params * weights.avg_params
                              + n.depth * weights.depth
                              + n.max_params * weights.max_params
                              + n.circular * weights.circular
                              + n.poly_union * weights.poly_union
                              + n.poly_allof * weights.poly_allof
                              + n.poly_discriminator * weights.poly_discriminator)
          IN /\ norms' = n
             /\ report' = [complexityScore |-> score, complexityLabel |-> label_for_score(score)]
                          @@ report
    /\ pc' = "waveform"
    /\ UNCHANGED <<heap, spec, mergeVars, cycleVars, depthVars, nodeVars,
                   path_count, operations, schemas, prop_counts, all_refs, poly_ref_targets,
                   sample_array_props, binary_alt_present>>

(* The raw counts of a report: every count at one level, but for one that  *)
(* is at a level of its own.  MaxRaw is past every point of saturation.    *)
MaxRaw == 1000000
RawLevels == {0, 1, 3, 9, 10, 25, 100, 299, 500, 1999, 2001, MaxRaw}
RawNames ==
    {"operations", "paths", "schemas", "refCount", "avgParameters", "maxParameters",
     "maxNestingDepth", "circularRefCount", "unionBranchCount", "allOfUsages",
     "discriminatorCount"}
RawReport(c) ==
    [paths |-> c["paths"], operations |-> c["operations"], schemas |-> c["schemas"],
     refCount |-> c["refCount"], avgParameters |-> c["avgParameters"],
     maxParameters |-> c["maxParameters"], maxNestingDepth |-> c["maxNestingDepth"],
     circularRefCount |-> c["circularRefCount"],
     polymorphism |-> [unionBranchCount |-> c["unionBranchCount"],
                       allOfUsages |-> c["allOfUsages"],
                       discriminatorCount |-> c["discriminatorCount"]]]

InitScore ==
    \E base \in RawLevels, own \in RawLevels, name \in RawNames :
        /\ report = RawReport([r \in RawNames |-> IF r = name THEN own ELSE base])
        /\ pc = "score"
        /\ heap = <<>> /\ spec = None
        /\ MergeIdle /\ CycleIdle /\ DepthIdle /\ NodeIdle
        /\ path_count = Idle /\ operations = Idle /\ schemas = Idle /\ prop_counts = Idle
        /\ all_refs = Idle /\ poly_ref_targets = Idle
        /\ AdviceIdle

SpecScore == InitScore /\ [][ScoreReport]_vars

NormNames == DOMAIN weights
RECURSIVE WeightedSum(_, _)
WeightedSum(n, names) ==
    IF names = {} THEN 0
    ELSE LET name == CHOOSE x \in names : TRUE
         IN n[name] * weights[name] + WeightedSum(n, names \ {name})

(* C14: once the score is computed, each of the eleven normalized inputs   *)
(* lies in [0, 1] whatever the raw counts are, the weights are             *)
(* non-negative and sum to 100, and complexityScore is the weighted sum    *)
(* rounded to one decimal and lies in [0, 100].                            *)
C14_ScoreInRange ==
    pc = "waveform" =>
        /\ DOMAIN norms = NormNames /\ Cardinality(NormNames) = 11
        /\ \A name \in NormNames : norms[name] \in 0..1000 /\ weights[name] >= 0
        /\ WeightedSum([name \in NormNames |-> 1], NormNames) = 100
        /\ report.complexityScore \in 0..1000
        /\ 100 * report.complexityScore - WeightedSum(norms, NormNames) \in -50..50

(* A report was scored whose counts are in part zero and in part past the  *)
(* point of saturation.                                                    *)
C14_Witness ==
    /\ pc = "waveform"
    /\ report.operations = MaxRaw /\ report.refCount = MaxRaw
    /\ report.paths = 0
    /\ norms.ops = 1000 /\ norms.paths = 0

----------------------------------------------------------------------------
(* openapi_complexity.py: compute_metrics, the waveform advisory, lines    *)
(* 499-549.  Of the report only waveformSerialization is followed.         *)

(* line 504                                                                *)
sample_keys == {<<"samples">>, <<"waveform">>, <<"data">>, <<"values">>}
Octet == <<"application", "/", "octet-stream">>

(* x in {...} raises TypeError on a list or a mapping                      *)
Unhashable(x) == x.k \in {"dict", "list"}

(* line 508                                                                *)
PropsOf(h, sch) ==
    Bind(GetOr(h, sch, S("properties"), None), LAMBDA p : IF IsDict(p) THEN p ELSE EmptyMap)

NoSample ==
    [raise |-> TRUE, schemaPointer |-> <<>>, property |-> None, itemType |-> None,
     itemFormat |-> None]

(* A key of sample_keys, compared as it is written.                        *)
IsSampleKeyExact(k) == k.v \in sample_keys

(* line 510: k.lower() in sample_keys                                      *)
IsSampleKey(k) == Lower(k.v) \in sample_keys

(* lines 509-515, for one schema node: the entries appended to             *)
(* sample_array_props, ended by a `raise` entry where k.lower() or the     *)
(* membership test raises                                                  *)
SampleArrays(h, ptr, sch) ==
    UpToRaise(FlatMap(Entries(h, PropsOf(h, sch)), LAMBDA j, en :
        IF ~IsStr(en.key) THEN <<NoSample>>
        ELSE IF ~(IsSampleKey(en.key) /\ IsDict(en.val)) THEN <<>>
        ELSE LET v == en.val
                 items == Bind(GetOr(h, v, S("items"), None),
                               LAMBDA g : IF IsDict(g) THEN g ELSE None)
             IN IF ~(GetOr(h, v, S("type"), None) = S("array") /\ Truthy(h, items)) THEN <<>>
                ELSE IF Unhashable(GetOr(h, items, S("type"), None)) THEN <<NoSample>>
                ELSE IF GetOr(h, items, S("type"), None) \in {S("number"), S("integer")}
                THEN <<[raise |-> FALSE, schemaPointer |-> ptr, property |-> en.key,
                        itemType |-> Get(h, items, S("type")),
                        itemFormat |-> GetOr(h, items, S("format"), None)]>>
                ELSE <<>>))

(* lines 517-521, for one schema node: "raise", or whether a property      *)
(* offers a binary alternative                                             *)
BinaryProps(h, sch) ==
    LET vals == SelectSeq(Entries(h, PropsOf(h, sch)), LAMBDA en : IsDict(en.val))
    IN IF \E j \in 1..Len(vals) : Unhashable(GetOr(h, vals[j].val, S("format"), None))
       THEN "raise"
       ELSE IF \E j \in 1..Len(vals) :
                  \/ GetOr(h, vals[j].val, S("format"), None) \in {S("byte"), S("binary")}
                  \/ GetOr(h, vals[j].val, S("contentEncoding"), None) = S("base64")
       THEN "yes"
       ELSE "no"

(* line 531: any(mt.lower() == "application/octet-stream" for mt in        *)
(* content.keys()), which stops at the first media type that matches       *)
AnyOctet(h, content) ==
    LET es == Entries(h, content)
        hits == {j \in 1..Len(es) : IsStr(es[j].key) /\ Lower(es[j].key.v) = Octet}
        bad == {j \in 1..Len(es) : ~IsStr(es[j].key)}
    IN IF \E j \in bad : \A l \in hits : j < l THEN "raise"
       ELSE IF hits # {} THEN "yes"
       ELSE "no"

(* lines 523-532: the outcomes of the media type checks, in order          *)
MediaChecks(h, sp) ==
    LET paths_obj == GetOrEmpty(h, sp, S("paths"))
    IN IF ~IsDict(paths_obj) THEN <<"raise">>
       ELSE FlatMap(Entries(h, paths_obj), LAMBDA j, pe :
                IF ~IsDict(pe.val) THEN <<>>
                ELSE FlatMap(Entries(h, pe.val), LAMBDA l, en :
                         IF ~IsStr(en.key) THEN <<"raise">>
                         ELSE IF ~(Lower(en.key.v) \in HTTP_METHODS /\ IsDict(en.val)) THEN <<>>
                         ELSE FlatMap(<<"requestBody", "responses">>, LAMBDA n, section :
                                  LET sec_obj == GetOr(h, en.val, S(section), None)
                                  IN IF ~IsDict(sec_obj) THEN <<>>
                                     ELSE Bind(GetOrEmpty(h, sec_obj, S("content")), LAMBDA content :
                                              IF IsDict(content) THEN <<AnyOctet(h, content)>>
                                              ELSE <<>>))))

(* lines 501-521                                                           *)
ScanSampleArrays ==
    /\ pc = "waveform"
    /\ \E yielded \in {iter_schema_nodes(heap, spec)} :
          LET found == Concat([j \in 1..Len(yielded) |->
                                  IF yielded[j].raise THEN <<NoSample>>
                                  ELSE SampleArrays(heap, yielded[j].ptr, yielded[j].node)])
              alts == {BinaryProps(heap, yielded[j].node) :
                          j \in {l \in 1..Len(yielded) : ~yielded[l].raise}}
          IN IF (\E j \in 1..Len(found) : found[j].raise) \/ "raise" \in alts
             THEN pc' = "raised" /\ UNCHANGED <<sample_array_props, binary_alt_present>>
             ELSE /\ sample_array_props' = found
                  /\ binary_alt_present' = ("yes" \in alts)
                  /\ pc' = "media"
    /\ UNCHANGED <<heap, spec, mergeVars, cycleVars, depthVars, nodeVars,
                   path_count, operations, schemas, prop_counts, all_refs, poly_ref_targets,
                   report, norms>>

(* lines 522-532                                                           *)
ScanMediaTypes ==
    /\ pc = "media"
    /\ \E checks \in {MediaChecks(heap, spec)} :
          IF \E j \in 1..Len(checks) : checks[j] = "raise"
          THEN pc' = "raised" /\ UNCHANGED binary_alt_present
          ELSE /\ binary_alt_present' =
                     (binary_alt_present \/ \E j \in 1..Len(checks) : checks[j] = "yes")
               /\ pc' = "advise"
    /\ UNCHANGED <<heap, spec, mergeVars, cycleVars, depthVars, nodeVars,
                   path_count, operations, schemas, prop_counts, all_refs, poly_ref_targets,
                   report, norms, sample_array_props>>

(* lines 533-551                                                           *)
ReportWaveform ==
    /\ pc = "advise"
    /\ report' = [waveformSerialization |->
                     IF sample_array_props # <<>>
                     THEN [issueDetected |-> TRUE,
                           sampleArrayProperties |-> sample_array_props,
                           binaryAlternativePresent |-> binary_alt_present]
                     ELSE [issueDetected |-> FALSE]] @@ report
    /\ pc' = "done"
    /\ UNCHANGED <<heap, spec, mergeVars, cycleVars, depthVars, nodeVars,
                   path_count, operations, schemas, prop_counts, all_refs, poly_ref_targets,
                   adviceVars>>

(* The documents analysed: a schema W with a property that is or is not a  *)
(* sample array, held by components.schemas or by a response, and a binary *)
(* alternative offered somewhere or nowhere.                               *)
NumberArray(type, more) == D(<<E("type", TS("array")), E("items", D(<<E("type", TS(type))>> \o more))>>)
SampleKinds == {"none", "samples", "Samples", "strings", "noitems", "nested", "intkey", "typelist"}
SampleProps(kind) ==
    CASE kind = "none" -> <<E("n", Plain)>>
      [] kind = "samples" -> <<E("samples", NumberArray("number", <<>>))>>
      [] kind = "Samples" -> <<E("Samples", NumberArray("integer", <<E("format", TS("int32"))>>))>>
      [] kind = "strings" -> <<E("data", NumberArray("string", <<>>))>>
      [] kind = "noitems" -> <<E("values", D(<<E("type", TS("array"))>>))>>
      [] kind = "nested" ->
             <<E("inner", D(<<E("type", TS("object")),
                              E("properties", D(<<E("samples", NumberArray("number", <<>>))>>))>>))>>
      [] kind = "intkey" -> <<EK(Num("5"), Plain), E("samples", NumberArray("number", <<>>))>>
      [] kind = "typelist" ->
             <<E("waveform", D(<<E("type", TS("array")),
                                 E("items", D(<<E("type", L(<<TS("number"), TS("null")>>))>>))>>))>>
Formatted(key, w) == D(<<E("type", TS("string")), E(key, TS(w))>>)
AltKinds ==
    {"none", "byte", "binary", "base64", "nested", "date", "formatlist",
     "requestBody", "status", "responses", "component"}
SiblingAlt(alt) ==
    CASE alt = "byte" -> <<E("blob", Formatted("format", "byte"))>>
      [] alt = "base64" -> <<E("blob", Formatted("contentEncoding", "base64"))>>
      [] alt = "date" -> <<E("when", Formatted("format", "date"))>>
      [] alt = "formatlist" -> <<E("blob", D(<<E("format", L(<<TS("byte")>>))>>))>>
      [] alt = "nested" ->
             <<E("block", D(<<E("type", TS("object")),
                              E("properties", D(<<E("blob", Formatted("format", "byte"))>>))>>))>>
      [] OTHER -> <<>>
Holders == {"schemas", "response"}
WaveDoc(kind, alt, holder) ==
    LET W == D(<<E("type", TS("object")), E("properties", D(SampleProps(kind) \o SiblingAlt(alt)))>>)
        named == If(holder = "schemas", <<E("W", W)>>)
                 \o If(alt = "binary",
                       <<E("B", D(<<E("properties", D(<<E("raw", Formatted("format", "binary"))>>))>>))>>)
        responses == <<E("200", Content(Json, IF holder = "response" THEN W ELSE Plain))>>
                     \o If(alt = "status", <<E("201", Content(Octet, Plain))>>)
                     \o If(alt = "responses", <<E("content", D(<<EK(Str(Octet), Holder(Plain))>>))>>)
        op == If(alt = "requestBody", <<E("requestBody", Content(Octet, Plain))>>)
              \o <<E("responses", D(responses))>>
    IN D(<< E("openapi", T(Sc("str", V303))),
            E("paths", D(<<EK(PathKey("a"), D(<<E("get", D(op))>>))>>)),
            E("components",
              D(<<E("schemas", D(named))>>
                \o If(alt = "component", <<E("responses", D(<<E("R", Content(Octet, Plain))>>))>>))) >>)

InitWaveform ==
    \E kind \in SampleKinds, alt \in AltKinds, holder \in Holders :
        /\ LET ld == Load(<<>>, WaveDoc(kind, alt, holder))
           IN heap = ld.h /\ spec = ld.v
        /\ pc = "waveform"
        /\ MergeIdle /\ CycleIdle /\ DepthIdle /\ NodeIdle
        /\ path_count = Idle /\ operations = Idle /\ schemas = Idle /\ prop_counts = Idle
        /\ all_refs = Idle /\ poly_ref_targets = Idle
        /\ report = <<>> /\ norms = Idle
        /\ sample_array_props = <<>> /\ binary_alt_present = FALSE

NextWaveform == ScanSampleArrays \/ ScanMediaTypes \/ ReportWaveform

SpecWaveform == InitWaveform /\ [][NextWaveform]_vars

(* The sample arrays of the document: the properties, of any schema node   *)
(* that iter_schema_nodes yields, that have a sample name and are arrays   *)
(* of numbers or of integers.                                              *)
IsSampleArray(t) ==
    /\ t.k = "dict"
    /\ TreeHas(t, S("type")) /\ TreeGet(t, S("type")) = TS("array")
    /\ TreeHas(t, S("items")) /\ TreeGet(t, S("items")).k = "dict"
    /\ TreeHas(TreeGet(t, S("items")), S("type"))
    /\ TreeGet(TreeGet(t, S("items")), S("type")) \in {TS("number"), TS("integer")}
HasSampleArray ==
    \E yielded \in {iter_schema_nodes(heap, spec)} :
       \E j \in 1..Len(yielded) :
          LET t == TreeOf(heap, yielded[j].node)
          IN /\ TreeHas(t, S("properties")) /\ TreeGet(t, S("properties")).k = "dict"
             /\ \E l \in 1..Len(TreeGet(t, S("properties")).e) :
                   LET en == TreeGet(t, S("properties")).e[l]
                   IN /\ en.key.k = "str"
                      /\ en.key.v \in sample_keys \cup {<<"Samples">>}
                      /\ IsSampleArray(en.val)

Advisory == report.waveformSerialization

RECURSIVE OffersBinary(_)
OffersBinary(t) ==
    \/ /\ t.k = "dict"
       /\ \/ TreeHas(t, S("format")) /\ TreeGet(t, S("format")) \in {TS("byte"), TS("binary")}
          \/ TreeHas(t, S("contentEncoding")) /\ TreeGet(t, S("contentEncoding")) = TS("base64")
          \/ TreeHas(t, Str(Octet))
    \/ \E j \in 1..Len(t.e) : OffersBinary(t.e[j].val)

(* C16: in the report, binaryAlternativePresent is true when the document  *)
(* offers a binary alternative anywhere, and false when it offers none.    *)
C16_AlternativeAnywhere ==
    pc = "done" =>
        /\ "binaryAlternativePresent" \in DOMAIN Advisory
        /\ Advisory.binaryAlternativePresent = OffersBinary(TreeOf(heap, spec))

----------------------------------------------------------------------------
(* openapi_complexity.py: schema_depth on documents without cycles:        *)
(* MaxShared named schemas, of which a schema may have a later one as its  *)
(* property `parent`, as its items or as its allOf branch (YAML aliases of *)
(* one object), so that a mapping is reached along several branches but    *)
(* never contains itself.                                                  *)
MaxShared == 3

SharedProps(j) == MaxShared + 2 * (j - 1) + 1
SharedAllOf(j) == MaxShared + 2 * (j - 1) + 2
SharedSchemas == 3 * MaxShared + 1

(* c[j][kind] is 0 where schema j has no such key, the number of a later   *)
(* schema where the key leads to it; as items it may also be the scalar 5, *)
(* written -1.                                                             *)
SharedChoices ==
    {c \in [1..MaxShared -> [{"properties", "items", "allOf"} -> -1..MaxShared]] :
        \A j \in 1..MaxShared :
           /\ \A kind \in {"properties", "allOf"} : c[j][kind] = 0 \/ c[j][kind] > j
           /\ c[j]["items"] \in {-1, 0} \/ c[j]["items"] > j}

SharedHeap(c) ==
    [j \in 1..MaxShared |->
        [k |-> "dict",
         e |-> If(c[j]["properties"] # 0,
                  <<[key |-> S("properties"), val |-> Obj("dict", SharedProps(j))]>>)
               \o If(c[j]["items"] # 0,
                     <<[key |-> S("items"),
                        val |-> IF c[j]["items"] = -1 THEN Num("5") ELSE Obj("dict", c[j]["items"])]>>)
               \o If(c[j]["allOf"] # 0,
                     <<[key |-> S("allOf"), val |-> Obj("list", SharedAllOf(j))]>>)]]
    \o [a \in 1..(2 * MaxShared) |->
           LET j == (a + 1) \div 2
           IN IF a % 2 = 1
              THEN [k |-> "dict",
                    e |-> If(c[j]["properties"] # 0,
                             <<[key |-> S("parent"), val |-> Obj("dict", c[j]["properties"])]>>)]
              ELSE [k |-> "list",
                    e |-> If(c[j]["allOf"] # 0,
                             <<[key |-> None, val |-> Obj("dict", c[j]["allOf"])]>>)]]
    \o << [k |-> "dict", e |-> [j \in 1..MaxShared |-> [key |-> S(NodeNames[j]), val |-> Obj("dict", j)]]],
          [k |-> "dict", e |-> <<[key |-> S("schemas"), val |-> Obj("dict", SharedSchemas)]>>],
          [k |-> "dict", e |-> <<[key |-> S("components"), val |-> Obj("dict", SharedSchemas + 1)]>>] >>

InitShared ==
    /\ \E c \in SharedChoices : heap = SharedHeap(c)
    /\ spec = Obj("dict", SharedSchemas + 2)
    /\ pc = "start"
    /\ MergeIdle /\ CycleIdle /\ NodeIdle /\ MetricIdle
    /\ seen = {} /\ frames = <<>> /\ todo = <<>> /\ depths = <<>> /\ max_depth = 0

NextShared == DepthStart \/ DepthCall \/ DepthLeaf \/ DepthEnter \/ DepthReturn \/ DepthsDone

SpecShared == InitShared /\ [][NextShared]_vars

(* The greatest number of properties/items/allOf/anyOf/oneOf hops from x,  *)
(* of a document without cycles                                            *)
RECURSIVE Hops(_, _)
Hops(h, x) ==
    IF ~IsDict(x) THEN 0
    ELSE LET below == Children(h, x)
         IN Max(<<0>> \o [j \in 1..Len(below) |-> 1 + Hops(h, below[j])])

(* C19: on a document without cycles schema_depth returns, for each named  *)
(* schema, the greatest number of hops below it: a mapping that two        *)
(* branches share is measured in full along both.                          *)
C19_SharedNodesMeasured ==
    pc = "done" =>
        /\ Len(depths) = MaxShared
        /\ \A j \in 1..MaxShared : depths[j] = Hops(heap, Obj("dict", j))

----------------------------------------------------------------------------
(* openapi_complexity.py: the scan of lines 319-343 on schemas with        *)
(* unions: two named schemas and the parameters of `get` under /a and of   *)
(* the path item /a/get, which are yielded with one address.               *)

UnionKinds == {"plain", "oneOf", "anyOf", "both", "empty", "scalar", "nested", "branch"}
OneOfList == L(<<Plain, D(<<E("type", TS("integer"))>>)>>)
AnyOfList == L(<<Plain>>)
UnionSchema(kind) ==
    CASE kind = "plain" -> Plain
      [] kind = "oneOf" -> D(<<E("oneOf", OneOfList)>>)
      [] kind = "anyOf" -> D(<<E("anyOf", AnyOfList)>>)
      [] kind = "both" -> D(<<E("oneOf", OneOfList), E("anyOf", AnyOfList)>>)
      [] kind = "empty" -> D(<<E("oneOf", L(<<>>))>>)
      [] kind = "scalar" -> D(<<E("oneOf", TS("x")), E("anyOf", T(None))>>)
      [] kind = "nested" ->
             D(<<E("type", TS("object")),
                 E("properties",
                   D(<<E("p", D(<<E("anyOf", AnyOfList), E("oneOf", OneOfList)>>))>>))>>)
      [] kind = "branch" ->
             D(<<E("oneOf", L(<<D(<<E("anyOf", L(<<Plain, Plain, Plain>>))>>)>>))>>)
ParamKinds == {"none", "plain", "oneOf", "both"}
Params(kind) == If(kind # "none", <<E("parameters", L(<<Holder(UnionSchema(kind))>>))>>)
UnionDoc(a, b, under, item) ==
    D(<< E("openapi", T(Sc("str", V303))),
         E("components", D(<<E("schemas", D(<<E("A", UnionSchema(a)), E("B", UnionSchema(b))>>))>>)),
         E("paths",
           D(If(under # "none", <<EK(Str(<<"/", "a">>), D(<<E("get", D(Params(under)))>>))>>)
             \o If(item # "none", <<EK(Str(<<"/", "a", "/", "get">>), D(Params(item)))>>))) >>)

InitUnions ==
    \E a \in UnionKinds, b \in UnionKinds, under \in ParamKinds, item \in ParamKinds :
        /\ LET ld == Load(<<>>, UnionDoc(a, b, under, item))
           IN heap = ld.h /\ spec = ld.v
        /\ pc = "start"
        /\ MergeIdle /\ CycleIdle /\ DepthIdle /\ MetricIdle
        /\ nodes = <<>> /\ visited_ptrs = {} /\ totals = NoCounts

SpecUnions == InitUnions /\ [][NextNodes]_vars

(* The schema nodes that are scanned: of the nodes yielded, the first of   *)
(* each address, as trees                                                  *)
Scanned ==
    Bind(iter_schema_nodes(heap, spec), LAMBDA yielded :
        Bind(SelectSeq([j \in 1..Len(yielded) |->
                           IF \E l \in 1..(j - 1) : yielded[l].ptr = yielded[j].ptr
                           THEN None ELSE yielded[j].node],
                       LAMBDA n : n # None),
             LAMBDA firsts : [j \in 1..Len(firsts) |-> TreeOf(heap, firsts[j])]))

(* The branches of the union lists that the mapping t itself carries, and  *)
(* whether it carries one                                                  *)
ListSize(t, key) ==
    IF TreeHas(t, S(key)) /\ TreeGet(t, S(key)).k = "list" THEN Len(TreeGet(t, S(key)).e) ELSE 0
BearsUnion(t) ==
    \E key \in {"oneOf", "anyOf"} : TreeHas(t, S(key)) /\ TreeGet(t, S(key)).k = "list"
BranchesOn(t) == ListSize(t, "oneOf") + ListSize(t, "anyOf")

(* The mappings inside the tree t, t included, at any depth                *)
RECURSIVE MappingsIn(_)
MappingsIn(t) ==
    (IF t.k = "dict" THEN <<t>> ELSE <<>>)
    \o Concat([j \in 1..Len(t.e) |-> MappingsIn(t.e[j].val)])
ScannedMappings ==
    Bind(Scanned, LAMBDA trees : Concat([j \in 1..Len(trees) |-> MappingsIn(trees[j])]))

RECURSIVE SumOf(_)
SumOf(q) == IF q = <<>> THEN 0 ELSE Head(q) + SumOf(Tail(q))

(* C20: unionSchemaCount is the number of mappings inside the scanned      *)
(* schema nodes that carry a oneOf or an anyOf list, each counted once;    *)
(* unionBranchCount is the sum of the lengths of these lists and           *)
(* maxUnionBranches the largest such sum on one mapping.                   *)
C20_UnionNodesOnce ==
    pc = "done" =>
        \A all \in {ScannedMappings} :
           /\ totals.union_nodes = Len(SelectSeq(all, BearsUnion))
           /\ totals.union_branches = SumOf([j \in 1..Len(all) |-> BranchesOn(all[j])])
           /\ totals.max_union_branches = Max(<<0>> \o [j \in 1..Len(all) |-> BranchesOn(all[j])])

----------------------------------------------------------------------------
(* openapi_complexity.py: compute_metrics lines 345-363 on named schemas   *)
(* A and B that carry composition keywords at their top, below it or not   *)
(* at all, and a schema R whose properties refer to them.                  *)

TargetKinds ==
    {"plain", "oneOf", "allOf", "discriminator", "nestedProperty", "nestedItems",
     "emptyAllOf", "propertyNamed"}
TargetSchema(kind) ==
    CASE kind = "plain" -> Plain
      [] kind = "oneOf" -> D(<<E("oneOf", OneOfList)>>)
      [] kind = "allOf" -> D(<<E("allOf", L(<<Plain>>))>>)
      [] kind = "discriminator" ->
             D(<<E("type", TS("object")), E("discriminator", D(<<E("propertyName", TS("t"))>>))>>)
      [] kind = "nestedProperty" ->
             D(<<E("type", TS("object")), E("properties", D(<<E("p", D(<<E("anyOf", AnyOfList)>>))>>))>>)
      [] kind = "nestedItems" ->
             D(<<E("type", TS("array")), E("items", D(<<E("allOf", L(<<Plain>>))>>))>>)
      [] kind = "emptyAllOf" -> D(<<E("allOf", L(<<>>))>>)
      [] kind = "propertyNamed" ->
             D(<<E("type", TS("object")), E("properties", D(<<E("discriminator", Plain)>>))>>)
TargetDoc(a, b, refs) ==
    D(<< E("openapi", T(Sc("str", V303))),
         E("components",
           D(<<E("schemas",
                 D(<< E("A", TargetSchema(a)), E("B", TargetSchema(b)),
                      E("R", D(<<E("type", TS("object")),
                                 E("properties",
                                   D([j \in 1..Len(refs) |->
                                         E(refs[j], RefNode(SchemaRef(refs[j])))]))>>)) >>))>>)) >>)

(* The state at line 345: schemas as line 253 collected them               *)
InitTargets ==
    \E a \in TargetKinds, b \in TargetKinds,
       refs \in {<<>>, <<"A">>, <<"B">>, <<"A", "B">>, <<"B", "A", "C">>} :
        /\ LET ld == Load(<<>>, TargetDoc(a, b, refs))
           IN /\ heap = ld.h /\ spec = ld.v
              /\ schemas = collect_schema_defs(ld.h, ld.v).val
        /\ pc = "targets"
        /\ MergeIdle /\ CycleIdle /\ DepthIdle /\ NodeIdle
        /\ path_count = Idle /\ operations = Idle /\ prop_counts = Idle /\ all_refs = Idle
        /\ poly_ref_targets = <<>> /\ report = Idle
        /\ AdviceIdle

SpecTargets == InitTargets /\ [][PolymorphicTargets]_vars

(* The mapping t has a union, an allOf or a discriminator of its own       *)
DirectlyPolymorphic(t) ==
    \/ \E key \in {"oneOf", "anyOf", "allOf"} : TreeHas(t, S(key)) /\ TreeGet(t, S(key)).k = "list"
    \/ TreeHas(t, S("discriminator"))

(* The named schemas that a reference of the document points at            *)
Referenced ==
    Bind(iter_schema_nodes(heap, spec), LAMBDA yielded :
        {RefName(r) : r \in {q \in Range(Concat([j \in 1..Len(yielded) |->
                                                    find_refs(heap, yielded[j].node)])) :
                                RefMatch(q)}})

(* C21: the references counted in polymorphicRefCount and listed in        *)
(* distinctPolymorphicRefTargets are those to the named schemas whose own  *)
(* top-level mapping has a oneOf/anyOf union, an allOf or a discriminator; *)
(* a schema with such keywords only below its top is no target.            *)
C21_TargetsTopLevelOnly ==
    pc = "report" =>
        \A j \in 1..Len(schemas) :
           (schemas[j].key \in Range(poly_ref_targets))
              = (schemas[j].key \in Referenced
                 /\ DirectlyPolymorphic(TreeOf(heap, schemas[j].val)))

====
